---- MODULE Spec2Model ----
(***************************************************************************)
(* A model of the StudyCare backend services: the caregiver service        *)
(* (linkChild, getLinkedChildren, unlinkChild, getChildActivity) and the   *)
(* pod service (createPod, joinPod, acceptInvitation, leavePod,            *)
(* sendMessage).  Every `await` of a service method is one step of the     *)
(* request that runs it, so the steps of concurrent requests interleave    *)
(* exactly where the runtime can switch between them.  The database is     *)
(* modelled as tables of rows; a table is a bag, so that a duplicate row   *)
(* is a state the model can express.                                       *)
(***************************************************************************)
EXTENDS Integers, Sequences, FiniteSets, TLC

VARIABLES
    users,      \* table users: id -> the rows with that id (their roles)
    rels,       \* table caregiver_children: <<caregiver_id, child_id>> -> number of rows
    down,       \* the database facilities that fail in this deployment
    pc,         \* request slot -> the await the request is suspended at
    loc,        \* request slot -> the locals of the running service method
    notes,      \* table notes of the observed child: created_at -> number of rows
    sessions,   \* table study_sessions of the observed child: created_at -> number of rows
    now,        \* the database clock (created_at of the next row)
    act,        \* the getChildActivity request: its position and locals
    pods,       \* table study_pods: pod id -> created_by, NoId while no such row
    members,    \* table study_pod_members: <<pod_id, user_id, role>> -> number of rows
    invites,    \* table pod_invitations: invitation id -> row, NoRow while no such row
    messages,   \* table pod_messages: the rows in the order of their insertion
    aiQueue,    \* the getAIHelp calls started by sendMessage and not yet settled
    ppc,        \* pod request slot -> the await the request is suspended at
    ploc,       \* pod request slot -> the locals of the running service method
    classStudents, \* table class_students: <<class_id, student_id>> -> number of rows
    classNotes, \* table notes with its class column: note id -> row, NoRow while no such row
    npc,        \* note request slot -> the await the request is suspended at
    nloc,       \* note request slot -> the locals of the running service method
    mpc,        \* incoming request -> its position in the middleware chain
    mloc,       \* incoming request -> its header, route, req.user and answer
    studySessions, \* table study_sessions: session id -> row (user_id, subject)
    chatMessages, \* table chat_messages: the rows in the order of their insertion
    cpc,        \* chat request slot -> the await the request is suspended at
    cloc,       \* chat request slot -> the locals of the running service method
    authIdentities, \* the users of the authentication provider (their ids)
    rgpc,       \* registration slot -> the await the request is suspended at
    rgloc,      \* registration slot -> the locals of the running register call
    store,      \* Cache.store: key -> entry (data, expiresAt), the keys present only
    clock,      \* Date.now(), in minutes
    lastSet,    \* history: key -> the latest set of the key and whether a delete or clear followed
    ret,        \* the latest call of the cache and what it returned
    pending,    \* the keys of the requests cacheMiddleware passed on, not yet answered
    metrics,    \* the fields of the MetricsCollector
    inFlight,   \* request id -> method, the requests whose finish listener has not run
    started     \* the number of requests that have passed metricsMiddleware

cgVars  == <<users, rels, down, pc, loc>>
actVars == <<notes, sessions, now, act>>
podVars == <<pods, members, invites, messages, aiQueue, ppc, ploc>>
chatVars == <<studySessions, chatMessages, cpc, cloc>>
regVars == <<authIdentities, rgpc, rgloc>>
cacheVars == <<store, clock, lastSet, ret, pending>>
metricVars == <<metrics, inFlight, started>>
svcVars == <<chatVars, regVars, cacheVars, metricVars>>
webVars == <<classStudents, classNotes, npc, nloc, mpc, mloc, svcVars>>
vars    == <<cgVars, actVars, podVars, webVars>>

(***************************************************************************)
(* Bounds of the model.                                                    *)
(***************************************************************************)
NumRequests == 2          \* request slots that run concurrently

Requests == 1..NumRequests

(***************************************************************************)
(* Strings.  An email is a sequence of characters; toLowerCase and trim    *)
(* are computed character by character.                                    *)
(***************************************************************************)
LowerOf(c) ==
    CASE c = "K" -> "k"
      [] c = "I" -> "i"
      [] c = "D" -> "d"
      [] c = "S" -> "s"
      [] c = "C" -> "c"
      [] c = "B" -> "b"
      [] OTHER   -> c

toLowerCase(s) == [i \in 1..Len(s) |-> LowerOf(s[i])]

RECURSIVE trimStart(_)
trimStart(s) == IF s # <<>> /\ Head(s) = " " THEN trimStart(Tail(s)) ELSE s

RECURSIVE trimEnd(_)
trimEnd(s) ==
    IF s # <<>> /\ s[Len(s)] = " " THEN trimEnd(SubSeq(s, 1, Len(s) - 1)) ELSE s

trim(s) == trimEnd(trimStart(s))

normalizedEmailUntrimmed(childEmail) == toLowerCase(childEmail)

\* data.childEmail.trim().toLowerCase()
normalizedEmail(childEmail) == toLowerCase(trim(childEmail))

(***************************************************************************)
(* The identities of the authentication provider and the caregivers.       *)
(***************************************************************************)
Caregivers == {"g1", "g2"}

AuthUsers ==
    { [id |-> "s1", email |-> <<"K", "i", "d">>],
      [id |-> "s2", email |-> <<"b", "o">>],
      [id |-> "t1", email |-> <<"t", "c">>] }

AuthIds == {u.id : u \in AuthUsers}

AuthEmail(id) == (CHOOSE u \in AuthUsers : u.id = id).email

\* the childEmail values a caregiver submits
EmailInputs ==
    { <<"k", "i", "d">>, <<" ", "K", "I", "D", " ">>, <<"t", "c">>, <<"n", "o">> }

\* child ids a caregiver can name in a URL: the identities and an id of no user
ChildIds == AuthIds \cup {"ghost"}

\* the child ids the unlink route is called with
UnlinkIds == {"s1", "s2", "ghost"}

Pairs == Caregivers \X ChildIds

NoId == "-"

(***************************************************************************)
(* Database facilities that a deployment can lack: the two privileged      *)
(* procedures, and the row-level permission for the two direct inserts.    *)
(***************************************************************************)
Facilities ==
    {"create_user_profile", "users_insert", "caregiver_children_insert",
     "link_caregiver_child"}

(***************************************************************************)
(* Table users.  The id column is the primary key: an insert of an id      *)
(* that is present fails with the duplicate-key error 23505.               *)
(***************************************************************************)
\* .from('users').select(...).eq('id', id).single(): the row, if exactly one
HasProfile(u, id) == Len(u[id]) = 1

ProfileRole(u, id) == u[id][1]

\* .from('users').select(...).eq('role', 'student') followed by
\* allStudents.find(u => u.email?.toLowerCase() === normalizedEmail)
findStudent(u, email) ==
    LET hit == {id \in AuthIds : /\ Len(u[id]) >= 1
                                 /\ u[id][1] = "student"
                                 /\ toLowerCase(AuthEmail(id)) = email}
    IN IF hit = {} THEN NoId ELSE CHOOSE id \in hit : TRUE

\* authUsers.find(u => u.email?.toLowerCase() === normalizedEmail)
findAuthUser(email) ==
    LET hit == {id \in AuthIds : toLowerCase(AuthEmail(id)) = email}
    IN IF hit = {} THEN NoId ELSE CHOOSE id \in hit : TRUE

InsertUser(u, id, role) ==
    IF Len(u[id]) >= 1
    THEN [ok |-> FALSE, code |-> "23505", table |-> u]
    ELSE [ok |-> TRUE, code |-> "", table |-> [u EXCEPT ![id] = Append(@, role)]]

\* the privileged procedure create_user_profile performs the insert of the row
create_user_profile(u, id, role) == InsertUser(u, id, role)

isDuplicateKeyNever(code) == FALSE

\* insertErr.code === '23505' || message includes 'duplicate' / 'already exists'
isDuplicateKey(code) == code = "23505"

(***************************************************************************)
(* Table caregiver_children, unique per (caregiver_id, child_id).          *)
(***************************************************************************)
MaxRows == 2     \* rows of one pair the bag can hold (reached only without the key)

InsertRelNoKey(r, cg, ch) ==
    IF r[<<cg, ch>>] >= MaxRows
    THEN [ok |-> FALSE, code |-> "23505", table |-> r]
    ELSE [ok |-> TRUE, code |-> "", table |-> [r EXCEPT ![<<cg, ch>>] = @ + 1]]

InsertRel(r, cg, ch) ==
    IF r[<<cg, ch>>] >= 1
    THEN [ok |-> FALSE, code |-> "23505", table |-> r]
    ELSE [ok |-> TRUE, code |-> "", table |-> [r EXCEPT ![<<cg, ch>>] = 1]]

\* the privileged procedure link_caregiver_child performs the same insert
link_caregiver_child(r, cg, ch) == InsertRel(r, cg, ch)

\* .select('id').eq('caregiver_id', cg).eq('child_id', ch).single()
SingleRel(r, cg, ch) == r[<<cg, ch>>] = 1

\* .delete().eq('caregiver_id', cg).eq('child_id', ch)
DeleteRel(r, cg, ch) == [r EXCEPT ![<<cg, ch>>] = 0]

(***************************************************************************)
(* Request slots.                                                          *)
(***************************************************************************)
Idle == [op |-> "-", caregiverId |-> NoId, childEmail |-> <<>>, email |-> <<>>,
         authUser |-> NoId, child |-> NoId, rpcError |-> "-", insertErr |-> "-",
         relationshipError |-> "-", status |-> 0, message |-> "-",
         children |-> <<>>]

Throw(l, status, message) == [l EXCEPT !.status = status, !.message = message]

\* the method returns, or throws createError(message, status)
Finish(p, l) ==
    /\ pc' = [pc EXCEPT ![p] = "done"]
    /\ loc' = [loc EXCEPT ![p] = l]
    /\ UNCHANGED <<actVars, podVars, webVars>>

Goto(p, label, l) ==
    /\ pc' = [pc EXCEPT ![p] = label]
    /\ loc' = [loc EXCEPT ![p] = l]
    /\ UNCHANGED <<actVars, podVars, webVars>>

IncompleteProfile ==
    "Child account exists in authentication but profile is incomplete"

roleGateInverted(p, l, u, id) ==
    IF ProfileRole(u, id) = "student"
    THEN Finish(p, Throw(l, 400, "Account found but is registered as another role"))
    ELSE Goto(p, "existing", [l EXCEPT !.child = id])

roleGateAcceptsAll(p, l, u, id) == Goto(p, "existing", [l EXCEPT !.child = id])

\* if (userProfile.role !== 'student') throw 400; child = userProfile
roleGate(p, l, u, id) ==
    IF ProfileRole(u, id) # "student"
    THEN Finish(p, Throw(l, 400, "Account found but is registered as another role"))
    ELSE Goto(p, "existing", [l EXCEPT !.child = id])

(***************************************************************************)
(* CaregiverService.linkChild                                              *)
(***************************************************************************)
\* The call runs to its first await, the students query.  listUsers, the next
\* await, reads the identities of the authentication provider, which no step
\* of this model changes, so it is taken in the same step.
linkChild_call ==
    \E p \in Requests, caregiverId \in Caregivers, childEmail \in EmailInputs :
    /\ pc[p] = "idle"
    /\ LET l == [Idle EXCEPT !.op = "linkChild", !.caregiverId = caregiverId,
                             !.childEmail = childEmail,
                             !.email = normalizedEmail(childEmail)]
           child == findStudent(users, l.email)
           authUser == findAuthUser(l.email)
       IN IF child # NoId
          THEN Goto(p, "existing", [l EXCEPT !.child = child])
          ELSE IF authUser = NoId
               THEN Finish(p, Throw(l, 404, "Child account not found"))
               ELSE Goto(p, "existingProfile", [l EXCEPT !.authUser = authUser])
    /\ UNCHANGED <<users, rels, down>>

linkChild_existingProfile ==
    \E p \in Requests :
    /\ pc[p] = "existingProfile"
    /\ IF HasProfile(users, loc[p].authUser)
       THEN roleGate(p, loc[p], users, loc[p].authUser)
       ELSE Goto(p, "rpcCreate", loc[p])
    /\ UNCHANGED <<users, rels, down>>

\* supabase.rpc('create_user_profile', {p_id, p_email, p_role: 'student', ...})
linkChild_rpcCreate ==
    \E p \in Requests :
    /\ pc[p] = "rpcCreate"
    /\ IF "create_user_profile" \in down
       THEN /\ Goto(p, "directInsert", [loc[p] EXCEPT !.rpcError = "42883"])
            /\ UNCHANGED users
       ELSE LET r == create_user_profile(users, loc[p].authUser, "student")
                l == [loc[p] EXCEPT !.rpcError = r.code]
            IN /\ users' = r.table
               /\ IF r.ok
                  THEN Goto(p, "verifyProfile", loc[p])
                  ELSE IF isDuplicateKey(r.code)
                       THEN Goto(p, "retryProfile", l)
                       ELSE Goto(p, "directInsert", l)
    /\ UNCHANGED <<rels, down>>

linkChild_retryProfile ==
    \E p \in Requests :
    /\ pc[p] = "retryProfile"
    /\ IF HasProfile(users, loc[p].authUser)
       THEN Goto(p, "verifyProfile", loc[p])
       ELSE Finish(p, Throw(loc[p], 404, IncompleteProfile))
    /\ UNCHANGED <<users, rels, down>>

linkChild_directInsertFatal ==
    \E p \in Requests :
    /\ pc[p] = "directInsert"
    /\ LET r == InsertUser(users, loc[p].authUser, "student")
       IN IF "users_insert" \notin down /\ r.ok
          THEN users' = r.table /\ Goto(p, "verifyProfile", loc[p])
          ELSE /\ UNCHANGED users
               /\ Finish(p, Throw([loc[p] EXCEPT !.insertErr = "23505"],
                                  500, "Failed to create user profile"))
    /\ UNCHANGED <<rels, down>>

linkChild_directInsert ==
    \E p \in Requests :
    /\ pc[p] = "directInsert"
    /\ IF "users_insert" \in down
       THEN /\ Finish(p, Throw([loc[p] EXCEPT !.insertErr = "42501"],
                               500, "Failed to create user profile"))
            /\ UNCHANGED users
       ELSE LET r == InsertUser(users, loc[p].authUser, "student")
                l == [loc[p] EXCEPT !.insertErr = r.code]
            IN /\ users' = r.table
               /\ IF r.ok
                  THEN Goto(p, "verifyProfile", loc[p])
                  ELSE IF isDuplicateKey(r.code)
                       THEN Goto(p, "fetchProfile", l)
                       ELSE Finish(p, Throw(l, 500, "Failed to create user profile"))
    /\ UNCHANGED <<rels, down>>

linkChild_fetchProfile ==
    \E p \in Requests :
    /\ pc[p] = "fetchProfile"
    /\ IF HasProfile(users, loc[p].authUser)
       THEN Goto(p, "verifyProfile", loc[p])
       ELSE Finish(p, Throw(loc[p], 404, IncompleteProfile))
    /\ UNCHANGED <<users, rels, down>>

linkChild_verifyProfile ==
    \E p \in Requests :
    /\ pc[p] = "verifyProfile"
    /\ IF HasProfile(users, loc[p].authUser)
       THEN roleGate(p, loc[p], users, loc[p].authUser)
       ELSE Finish(p, Throw(loc[p], 500, "Profile was created but could not be verified"))
    /\ UNCHANGED <<users, rels, down>>

existingLinkAnyCaregiver(r, cg, ch) ==
    Cardinality({g \in Caregivers : r[<<g, ch>>] >= 1}) = 1

\* const {data: existing, error} = ...single(); existing && !existingError
existingLink(r, cg, ch) == SingleRel(r, cg, ch)

linkChild_existing ==
    \E p \in Requests :
    /\ pc[p] = "existing"
    /\ IF existingLink(rels, loc[p].caregiverId, loc[p].child)
       THEN Finish(p, Throw(loc[p], 400, "Child is already linked to this caregiver"))
       ELSE Goto(p, "insert", loc[p])
    /\ UNCHANGED <<users, rels, down>>

linkChild_insertNoFallback ==
    \E p \in Requests :
    /\ pc[p] = "insert"
    /\ LET r == InsertRel(rels, loc[p].caregiverId, loc[p].child)
       IN IF "caregiver_children_insert" \notin down /\ r.ok
          THEN rels' = r.table /\ Finish(p, [loc[p] EXCEPT !.status = 201])
          ELSE /\ UNCHANGED rels
               /\ Finish(p, Throw([loc[p] EXCEPT !.relationshipError = "42501"],
                                  500, "Failed to link child"))
    /\ UNCHANGED <<users, down>>

linkChild_insert ==
    \E p \in Requests :
    /\ pc[p] = "insert"
    /\ IF "caregiver_children_insert" \in down
       THEN /\ Goto(p, "rpcLink", [loc[p] EXCEPT !.relationshipError = "42501"])
            /\ UNCHANGED rels
       ELSE LET r == InsertRel(rels, loc[p].caregiverId, loc[p].child)
            IN /\ rels' = r.table
               /\ IF r.ok
                  THEN Finish(p, [loc[p] EXCEPT !.status = 201])
                  ELSE Goto(p, "rpcLink", [loc[p] EXCEPT !.relationshipError = r.code])
    /\ UNCHANGED <<users, down>>

\* supabase.rpc('link_caregiver_child', {p_caregiver_id, p_child_id})
linkChild_rpcLink ==
    \E p \in Requests :
    /\ pc[p] = "rpcLink"
    /\ IF "link_caregiver_child" \in down
       THEN /\ Finish(p, Throw(loc[p], 500, "Failed to link child"))
            /\ UNCHANGED rels
       ELSE LET r == link_caregiver_child(rels, loc[p].caregiverId, loc[p].child)
            IN /\ rels' = r.table
               /\ IF r.ok
                  THEN Finish(p, [loc[p] EXCEPT !.status = 201])
                  ELSE Finish(p, Throw(loc[p], 500, "Failed to link child"))
    /\ UNCHANGED <<users, down>>

(***************************************************************************)
(* CaregiverService.unlinkChild                                            *)
(***************************************************************************)
unlinkKeepsRows(r, cg, ch) == r

unlinkAllOfChild(r, cg, ch) ==
    [pr \in Pairs |-> IF pr[2] = ch THEN 0 ELSE r[pr]]

unlinkAllOfCaregiver(r, cg, ch) ==
    [pr \in Pairs |-> IF pr[1] = cg THEN 0 ELSE r[pr]]

\* .delete().eq('caregiver_id', caregiverId).eq('child_id', childId)
unlinkDelete(r, cg, ch) == DeleteRel(r, cg, ch)

unlinkChild ==
    \E p \in Requests :
    /\ pc[p] = "idle"
    /\ \E g \in Caregivers, c \in UnlinkIds :
          /\ rels' = unlinkDelete(rels, g, c)
          /\ Finish(p, [Idle EXCEPT !.op = "unlinkChild", !.caregiverId = g,
                                    !.child = c, !.status = 200])
    /\ UNCHANGED <<users, down>>

(***************************************************************************)
(* CaregiverService.getLinkedChildren                                      *)
(***************************************************************************)
relationshipsOfAnyone(r, cg) ==
    [c \in ChildIds |-> IF \E g \in Caregivers : r[<<g, c>>] >= 1 THEN 1 ELSE 0]

\* .from('caregiver_children').select('*').eq('caregiver_id', caregiverId):
\* the number of rows, and so of entries of the answer, for each child id
relationshipsOf(r, cg) == [c \in ChildIds |-> r[<<cg, c>>]]

getLinkedChildren_call ==
    \E p \in Requests :
    /\ pc[p] = "idle"
    /\ \E g \in Caregivers :
          LET rows == relationshipsOf(rels, g)
              l == [Idle EXCEPT !.op = "getLinkedChildren", !.caregiverId = g,
                                !.children = rows]
          IN IF \A c \in ChildIds : rows[c] = 0
             THEN Finish(p, [l EXCEPT !.status = 200])
             ELSE Goto(p, "childrenData", l)
    /\ UNCHANGED <<users, rels, down>>

\* the second query only decorates the relationships with the child's profile
getLinkedChildren_childrenData ==
    \E p \in Requests :
    /\ pc[p] = "childrenData"
    /\ Finish(p, [loc[p] EXCEPT !.status = 200])
    /\ UNCHANGED <<users, rels, down>>

\* the response is sent and the slot takes the next request
respond ==
    \E p \in Requests :
    /\ pc[p] = "done"
    /\ pc' = [pc EXCEPT ![p] = "idle"]
    /\ loc' = [loc EXCEPT ![p] = Idle]
    /\ UNCHANGED <<users, rels, down, actVars, podVars, webVars>>

(***************************************************************************)
(* The caregiver routes under concurrent requests.                         *)
(***************************************************************************)
InitUsers ==
    { [id \in AuthIds |->
          CASE id = "s1" -> s1
            [] id = "s2" -> <<"student">>
            [] OTHER     -> <<"teacher">>] : s1 \in {<<>>, <<"student">>} }

\* the tables and requests a specification does not exercise
ActivityOff == notes = <<>> /\ sessions = <<>> /\ now = 0 /\ act = <<>>

PodsOff ==
    /\ pods = <<>> /\ members = <<>> /\ invites = <<>> /\ messages = <<>>
    /\ aiQueue = {} /\ ppc = <<>> /\ ploc = <<>>

ChatOff == studySessions = <<>> /\ chatMessages = <<>> /\ cpc = <<>> /\ cloc = <<>>

RegOff == authIdentities = {} /\ rgpc = <<>> /\ rgloc = <<>>

CacheOff ==
    store = <<>> /\ clock = 0 /\ lastSet = <<>> /\ ret = <<>> /\ pending = {}

MetricsOff == metrics = <<>> /\ inFlight = <<>> /\ started = 0

SvcOff == ChatOff /\ RegOff /\ CacheOff /\ MetricsOff

WebOff ==
    /\ classStudents = <<>> /\ classNotes = <<>> /\ npc = <<>> /\ nloc = <<>>
    /\ mpc = <<>> /\ mloc = <<>> /\ SvcOff

InitOther == ActivityOff /\ PodsOff /\ WebOff

\* the second student was linked to the first caregiver earlier, or was not
InitRels ==
    { [pr \in Pairs |-> IF pr = <<"g1", "s2">> THEN n ELSE 0] : n \in {0, 1} }

\* the deployments the routes are exercised in: everything works; the profile
\* procedure is missing; row-level security refuses the relationship insert
Deployments == { {}, {"create_user_profile"}, {"caregiver_children_insert"} }

Init ==
    /\ users \in InitUsers
    /\ rels \in InitRels
    /\ down \in Deployments
    /\ pc = [p \in Requests |-> "idle"]
    /\ loc = [p \in Requests |-> Idle]
    /\ InitOther


LinkChildStep ==
    \/ linkChild_call
    \/ linkChild_existingProfile
    \/ linkChild_rpcCreate
    \/ linkChild_retryProfile
    \/ linkChild_directInsert
    \/ linkChild_fetchProfile
    \/ linkChild_verifyProfile
    \/ linkChild_existing
    \/ linkChild_insert
    \/ linkChild_rpcLink

CaregiverNext ==
    \/ LinkChildStep
    \/ unlinkChild
    \/ getLinkedChildren_call
    \/ getLinkedChildren_childrenData
    \/ respond

Next == CaregiverNext

Spec == Init /\ [][Next]_vars

(***************************************************************************)
(* Concurrent linkChild calls, one per request slot, for a student who     *)
(* has an authentication identity and no profile row, in every deployment. *)
(***************************************************************************)
InitRace ==
    /\ users = [id \in AuthIds |->
                   CASE id = "s1" -> <<>>
                     [] id = "s2" -> <<"student">>
                     [] OTHER     -> <<"teacher">>]
    /\ rels = [pr \in Pairs |-> 0]
    /\ down \in SUBSET Facilities
    /\ pc = [p \in Requests |-> "idle"]
    /\ loc = [p \in Requests |-> Idle]
    /\ InitOther

SpecRace == InitRace /\ [][LinkChildStep]_vars

(***************************************************************************)
(* CaregiverService.getChildActivity, over the notes and study sessions of *)
(* one child.  A row is known by its created_at; the tables are bags of    *)
(* timestamps.  Rows are written while no report is being assembled.       *)
(***************************************************************************)
MaxTime == 2          \* timestamps are 1..MaxTime
MaxNotes == 6         \* notes the child writes
MaxSessions == 7      \* study sessions the child starts
RecentLimit == 5      \* .limit(5)
ActivityCap == 10     \* recentActivity.splice(10)

Times == 1..MaxTime

RECURSIVE BagSize(_, _)
BagSize(bag, t) == IF t = 0 THEN 0 ELSE bag[t] + BagSize(bag, t - 1)

countOfSample(bag) ==
    IF BagSize(bag, MaxTime) > RecentLimit THEN RecentLimit ELSE BagSize(bag, MaxTime)

\* .select('*', {count: 'exact', head: true}).eq('user_id', childId)
Count(bag) == BagSize(bag, MaxTime)

\* the created_at values of the bag, newest first, at most n of them
RECURSIVE Newest(_, _, _)
Newest(bag, t, n) ==
    IF t = 0 \/ n = 0 THEN <<>>
    ELSE LET k == IF bag[t] < n THEN bag[t] ELSE n
         IN [i \in 1..k |-> t] \o Newest(bag, t - 1, n - k)

orderAscLimit(bag, limit) ==
    LET all == Newest(bag, MaxTime, BagSize(bag, MaxTime))
        k == IF Len(all) < limit THEN Len(all) ELSE limit
    IN [i \in 1..k |-> all[Len(all) + 1 - i]]

\* .order('created_at', {ascending: false}).limit(limit)
orderDescLimit(bag, limit) == Newest(bag, MaxTime, limit)

\* recentNotes.data.forEach(note => recentActivity.push({type: 'note', ...}))
pushNotes(rows) == [i \in 1..Len(rows) |-> [type |-> "note", created_at |-> rows[i]]]

\* recentSessions.data.forEach(s => recentActivity.push({type: s.session_type, ...}))
pushSessions(rows) == [i \in 1..Len(rows) |-> [type |-> "chat", created_at |-> rows[i]]]

\* Array.prototype.sort is stable: x goes after the entries the comparator
\* (b.created_at - a.created_at) does not put behind it
RECURSIVE insertDesc(_, _)
insertDesc(x, sorted) ==
    IF sorted = <<>> THEN <<x>>
    ELSE IF Head(sorted).created_at >= x.created_at
         THEN <<Head(sorted)>> \o insertDesc(x, Tail(sorted))
         ELSE <<x>> \o sorted

RECURSIVE sortFrom(_, _)
sortFrom(list, sorted) ==
    IF list = <<>> THEN sorted ELSE sortFrom(Tail(list), insertDesc(Head(list), sorted))

sortUnsorted(list) == list

\* recentActivity.sort((a, b) => new Date(b.created_at) - new Date(a.created_at))
sortByCreatedAtDesc(list) == sortFrom(list, <<>>)

\* recentActivity.splice(10)
splice(list, n) == IF Len(list) > n THEN SubSeq(list, 1, n) ELSE list

ActIdle ==
    [pc |-> "idle", caregiverId |-> NoId, childId |-> NoId, status |-> 0,
     message |-> "-", reads |-> {}, notes_count |-> 0, chat_sessions_count |-> 0,
     last_active |-> 0, recentNotes |-> <<>>, recent_activity |-> <<>>]

notLinkedNever(r, g, c) == FALSE

\* relationshipError || !relationship, of .eq(caregiver_id).eq(child_id).single()
notLinked(r, g, c) == ~SingleRel(r, g, c)

getChildActivity_call ==
    \E caregiverId \in Caregivers, childId \in {"s1", "ghost"} :
    /\ act.pc = "idle"
    /\ LET a == [ActIdle EXCEPT !.caregiverId = caregiverId, !.childId = childId,
                                !.reads = {"caregiver_children"}]
       IN IF notLinked(rels, caregiverId, childId)
          THEN act' = [a EXCEPT !.pc = "done", !.status = 403,
                                !.message = "Child not linked to this caregiver"]
          ELSE act' = [a EXCEPT !.pc = "childData"]
    /\ UNCHANGED <<cgVars, notes, sessions, now, podVars, webVars>>

\* .from('users').select(...).eq('id', childId).eq('role', 'student').single()
getChildActivity_childData ==
    /\ act.pc = "childData"
    /\ LET a == [act EXCEPT !.reads = @ \cup {"users"}]
       IN IF /\ "users_select" \notin down
             /\ act.childId \in AuthIds
             /\ HasProfile(users, act.childId)
             /\ ProfileRole(users, act.childId) = "student"
          THEN act' = [a EXCEPT !.pc = "counts"]
          ELSE act' = [a EXCEPT !.pc = "childInfo"]
    /\ UNCHANGED <<cgVars, notes, sessions, now, podVars, webVars>>

\* supabase.rpc('get_child_info', {p_caregiver_id, p_child_id})
getChildActivity_childInfo ==
    /\ act.pc = "childInfo"
    /\ IF /\ act.childId \in AuthIds
          /\ HasProfile(users, act.childId)
          /\ SingleRel(rels, act.caregiverId, act.childId)
       THEN act' = [act EXCEPT !.pc = "counts"]
       ELSE act' = [act EXCEPT !.pc = "done", !.status = 404,
                               !.message = "Child not found"]
    /\ UNCHANGED <<cgVars, notes, sessions, now, podVars, webVars>>

\* Promise.all([classes count, notes count, sessions count, last session])
getChildActivity_counts ==
    /\ act.pc = "counts"
    /\ act' = [act EXCEPT !.pc = "recentNotes",
                          !.reads = @ \cup {"class_students", "notes", "study_sessions"},
                          !.notes_count = Count(notes),
                          !.chat_sessions_count = Count(sessions),
                          !.last_active =
                              IF Count(sessions) = 0 THEN 0
                              ELSE orderDescLimit(sessions, 1)[1]]
    /\ UNCHANGED <<cgVars, notes, sessions, now, podVars, webVars>>

getChildActivity_recentNotes ==
    /\ act.pc = "recentNotes"
    /\ act' = [act EXCEPT !.pc = "recentSessions",
                          !.recentNotes = orderDescLimit(notes, RecentLimit)]
    /\ UNCHANGED <<cgVars, notes, sessions, now, podVars, webVars>>

\* the last await; the merge, the sort and the splice run without suspension
getChildActivity_recentSessions ==
    /\ act.pc = "recentSessions"
    /\ LET recentSessions == orderDescLimit(sessions, RecentLimit)
           recentActivity == pushNotes(act.recentNotes) \o pushSessions(recentSessions)
       IN act' = [act EXCEPT !.pc = "done", !.status = 200, !.recentNotes = <<>>,
                             !.recent_activity =
                                 splice(sortByCreatedAtDesc(recentActivity), ActivityCap)]
    /\ UNCHANGED <<cgVars, notes, sessions, now, podVars, webVars>>

getChildActivity_respond ==
    /\ act.pc = "done"
    /\ act' = ActIdle
    /\ UNCHANGED <<cgVars, notes, sessions, now, podVars, webVars>>

Quiescent == act.pc \in {"idle", "done"}

\* NoteService.createNote by the child: one more row in notes
createNote ==
    /\ Quiescent
    /\ BagSize(notes, MaxTime) < MaxNotes
    /\ notes' = [notes EXCEPT ![now] = @ + 1]
    /\ UNCHANGED <<cgVars, sessions, now, act, podVars, webVars>>

\* ChatService.createSession by the child: one more row in study_sessions
createSession ==
    /\ Quiescent
    /\ BagSize(sessions, MaxTime) < MaxSessions
    /\ sessions' = [sessions EXCEPT ![now] = @ + 1]
    /\ UNCHANGED <<cgVars, notes, now, act, podVars, webVars>>

\* the database clock advances
tick ==
    /\ Quiescent
    /\ now < MaxTime
    /\ now' = now + 1
    /\ UNCHANGED <<cgVars, notes, sessions, act, podVars, webVars>>


InitActivity ==
    /\ users = [id \in AuthIds |-> IF id = "t1" THEN <<"teacher">> ELSE <<"student">>]
    /\ rels = [pr \in Pairs |-> IF pr = <<"g1", "s1">> THEN 1 ELSE 0]
    /\ down \in { {}, {"users_select"} }
    /\ pc = [p \in Requests |-> "idle"]
    /\ loc = [p \in Requests |-> Idle]
    /\ notes = [t \in Times |-> 0]
    /\ sessions = [t \in Times |-> 0]
    /\ now = 1
    /\ act = ActIdle
    /\ PodsOff /\ WebOff

ActivityNext ==
    \/ getChildActivity_call
    \/ getChildActivity_childData
    \/ getChildActivity_childInfo
    \/ getChildActivity_counts
    \/ getChildActivity_recentNotes
    \/ getChildActivity_recentSessions
    \/ getChildActivity_respond
    \/ createNote
    \/ createSession
    \/ tick

SpecActivity == InitActivity /\ [][ActivityNext]_vars

(***************************************************************************)
(* The pod service: study_pods, study_pod_members and pod_invitations.     *)
(* The users of the pods are the users of the users table: the teacher t1  *)
(* and the students s1 and s2.                                             *)
(***************************************************************************)
MaxPods == 1              \* rows of study_pods
MaxMemberRows == 2        \* rows of study_pod_members with one (pod, user, role)
MaxInvites == 1           \* rows of pod_invitations

PodIds == 1..MaxPods
InviteIds == 1..MaxInvites
PodUsers == AuthIds
Roles == {"admin", "member"}

MemberKeys == PodIds \X PodUsers \X Roles
NoPod == 0
NoRow == [pod_id |-> NoPod, invited_user_id |-> NoId, status |-> "-"]

PodExists(ps, podId) == ps[podId] # NoId

\* the id the database gives the next row
nextId(ids, taken) == CHOOSE i \in ids \ taken : \A j \in ids \ taken : i <= j

\* the rows with pod_id = podId and user_id = userId
memberRows(m, podId, userId) ==
    m[<<podId, userId, "admin">>] + m[<<podId, userId, "member">>]

\* .eq('pod_id', podId).eq('user_id', userId).single(): data only when exactly
\* one row matches
singleMember(m, podId, userId) == memberRows(m, podId, userId) = 1

memberRole(m, podId, userId) ==
    IF m[<<podId, userId, "admin">>] = 1 THEN "admin" ELSE "member"

RECURSIVE sumAdmins(_, _, _)
sumAdmins(m, podId, us) ==
    IF us = {} THEN 0
    ELSE LET u == CHOOSE x \in us : TRUE
         IN m[<<podId, u, "admin">>] + sumAdmins(m, podId, us \ {u})

\* .select('*', {count: 'exact', head: true}).eq('pod_id', podId).eq('role', 'admin')
adminCount(m, podId) == sumAdmins(m, podId, PodUsers)

\* study_pod_members.insert({pod_id, user_id, role})
InsertMember(m, podId, userId, role) ==
    [m EXCEPT ![<<podId, userId, role>>] = @ + 1]

CanInsertMember(m, podId, userId, role) ==
    m[<<podId, userId, role>>] < MaxMemberRows

PodIdle == [op |-> "-", podId |-> NoPod, userId |-> NoId, invitedUserId |-> NoId,
            invitationId |-> 0, status |-> 0, message |-> "-"]

msgVars == <<messages, aiQueue>>

PodFinish(p, l) ==
    /\ ppc' = [ppc EXCEPT ![p] = "done"]
    /\ ploc' = [ploc EXCEPT ![p] = l]
    /\ UNCHANGED <<cgVars, actVars, webVars>>

PodGoto(p, label, l) ==
    /\ ppc' = [ppc EXCEPT ![p] = label]
    /\ ploc' = [ploc EXCEPT ![p] = l]
    /\ UNCHANGED <<cgVars, actVars, webVars>>

(***************************************************************************)
(* createPod: the pod row, then the creator's membership row.              *)
(***************************************************************************)
createPod_call ==
    \E p \in Requests, userId \in {"t1"} :
    /\ ppc[p] = "idle"
    /\ \E free \in PodIds : ~PodExists(pods, free)
    /\ LET id == nextId(PodIds, {i \in PodIds : PodExists(pods, i)})
           l == [PodIdle EXCEPT !.op = "createPod", !.userId = userId, !.podId = id]
       IN \/ /\ PodFinish(p, Throw(l, 500, "Failed to create pod"))
             /\ UNCHANGED pods
          \/ /\ pods' = [pods EXCEPT ![id] = userId]
             /\ PodGoto(p, "addCreator", l)
    /\ UNCHANGED <<members, invites, msgVars>>

createPod_addCreatorRollback ==
    \E p \in Requests :
    /\ ppc[p] = "addCreator"
    /\ LET l == ploc[p]
       IN \/ /\ PodFinish(p, Throw(l, 500, "Failed to add creator as pod member"))
             /\ pods' = [pods EXCEPT ![l.podId] = NoId]
             /\ UNCHANGED members
          \/ /\ CanInsertMember(members, l.podId, l.userId, "admin")
             /\ members' = InsertMember(members, l.podId, l.userId, "admin")
             /\ PodFinish(p, Throw(l, 201, "-"))
             /\ UNCHANGED pods
    /\ UNCHANGED <<invites, msgVars>>

createPod_addCreator ==
    \E p \in Requests :
    /\ ppc[p] = "addCreator"
    /\ LET l == ploc[p]
       IN \/ /\ PodFinish(p, Throw(l, 500, "Failed to add creator as pod member"))
             /\ UNCHANGED members
          \/ /\ CanInsertMember(members, l.podId, l.userId, "admin")
             /\ members' = InsertMember(members, l.podId, l.userId, "admin")
             /\ PodFinish(p, Throw(l, 201, "-"))
    /\ UNCHANGED <<pods, invites, msgVars>>

(***************************************************************************)
(* joinPod                                                                 *)
(***************************************************************************)
joinPod_call ==
    \E p \in Requests, podId \in PodIds, userId \in {"s1", "s2"} :
    /\ ppc[p] = "idle"
    /\ LET l == [PodIdle EXCEPT !.op = "joinPod", !.podId = podId, !.userId = userId]
       IN IF ~PodExists(pods, podId)
          THEN PodFinish(p, Throw(l, 404, "Pod not found"))
          ELSE PodGoto(p, "joinExisting", l)
    /\ UNCHANGED <<pods, members, invites, msgVars>>

joinPod_existing ==
    \E p \in Requests :
    /\ ppc[p] = "joinExisting"
    /\ LET l == ploc[p]
       IN IF singleMember(members, l.podId, l.userId)
          THEN PodFinish(p, Throw(l, 400, "Already a member of this pod"))
          ELSE PodGoto(p, "joinInsert", l)
    /\ UNCHANGED <<pods, members, invites, msgVars>>

joinPod_insert ==
    \E p \in Requests :
    /\ ppc[p] = "joinInsert"
    /\ LET l == ploc[p]
       IN \/ /\ PodFinish(p, Throw(l, 500, "Failed to join pod"))
             /\ UNCHANGED members
          \/ /\ CanInsertMember(members, l.podId, l.userId, "member")
             /\ members' = InsertMember(members, l.podId, l.userId, "member")
             /\ PodFinish(p, Throw(l, 200, "-"))
    /\ UNCHANGED <<pods, invites, msgVars>>

(***************************************************************************)
(* sendInvitation.  The pod and the invited user are read by the first two *)
(* awaits; no operation of the model changes the created_by of a pod or a  *)
(* profile, so the two reads are one step.                                 *)
(***************************************************************************)
pendingInvites(inv, podId, userId) ==
    {i \in InviteIds : inv[i].pod_id = podId /\ inv[i].invited_user_id = userId
                       /\ inv[i].status = "pending"}

sendInvitation_call ==
    \E p \in Requests, podId \in PodIds, ownerId \in {"t1", "s1"}, invitedUserId \in PodUsers :
    /\ ppc[p] = "idle"
    /\ LET l == [PodIdle EXCEPT !.op = "sendInvitation", !.podId = podId,
                                !.userId = ownerId, !.invitedUserId = invitedUserId]
       IN IF ~PodExists(pods, podId)
          THEN PodFinish(p, Throw(l, 404, "Pod not found"))
          ELSE IF pods[podId] # ownerId
          THEN PodFinish(p, Throw(l, 403, "Only pod owner can send invitations"))
          ELSE IF ~HasProfile(users, invitedUserId)
          THEN PodFinish(p, Throw(l, 404, "User not found"))
          ELSE IF ProfileRole(users, invitedUserId) # "student"
          THEN PodFinish(p, Throw(l, 400, "Can only invite students"))
          ELSE PodGoto(p, "inviteMember", l)
    /\ UNCHANGED <<pods, members, invites, msgVars>>

sendInvitation_existingMember ==
    \E p \in Requests :
    /\ ppc[p] = "inviteMember"
    /\ LET l == ploc[p]
       IN IF singleMember(members, l.podId, l.invitedUserId)
          THEN PodFinish(p, Throw(l, 400, "User is already a member of this pod"))
          ELSE PodGoto(p, "invitePending", l)
    /\ UNCHANGED <<pods, members, invites, msgVars>>

sendInvitation_existingInvitation ==
    \E p \in Requests :
    /\ ppc[p] = "invitePending"
    /\ LET l == ploc[p]
       IN IF Cardinality(pendingInvites(invites, l.podId, l.invitedUserId)) = 1
          THEN PodFinish(p, Throw(l, 400, "Invitation already sent"))
          ELSE PodGoto(p, "inviteInsert", l)
    /\ UNCHANGED <<pods, members, invites, msgVars>>

sendInvitation_insert ==
    \E p \in Requests :
    /\ ppc[p] = "inviteInsert"
    /\ \E free \in InviteIds : invites[free] = NoRow
    /\ LET l == ploc[p]
           id == nextId(InviteIds, {i \in InviteIds : invites[i] # NoRow})
       IN /\ invites' = [invites EXCEPT ![id] =
                            [pod_id |-> l.podId, invited_user_id |-> l.invitedUserId,
                             status |-> "pending"]]
          /\ PodFinish(p, Throw([l EXCEPT !.invitationId = id], 201, "-"))
    /\ UNCHANGED <<pods, members, msgVars>>

(***************************************************************************)
(* acceptInvitation                                                        *)
(***************************************************************************)
acceptInvitation_call ==
    \E p \in Requests, invitationId \in InviteIds, userId \in {"s1", "s2"} :
    /\ ppc[p] = "idle"
    /\ LET l == [PodIdle EXCEPT !.op = "acceptInvitation", !.userId = userId,
                                !.invitationId = invitationId]
           invitation == invites[invitationId]
       IN IF invitation = NoRow \/ invitation.invited_user_id # userId
          THEN PodFinish(p, Throw(l, 404, "Invitation not found"))
          ELSE IF invitation.status # "pending"
          THEN PodFinish(p, Throw(l, 400, "Invitation is no longer pending"))
          ELSE PodGoto(p, "acceptInsert", [l EXCEPT !.podId = invitation.pod_id])
    /\ UNCHANGED <<pods, members, invites, msgVars>>

acceptInvitation_insert ==
    \E p \in Requests :
    /\ ppc[p] = "acceptInsert"
    /\ LET l == ploc[p]
       IN \/ /\ PodFinish(p, Throw(l, 500, "Failed to join pod"))
             /\ UNCHANGED members
          \/ /\ CanInsertMember(members, l.podId, l.userId, "member")
             /\ members' = InsertMember(members, l.podId, l.userId, "member")
             /\ PodGoto(p, "acceptUpdate", l)
    /\ UNCHANGED <<pods, invites, msgVars>>

\* the update of the invitation's status: its result is not looked at, the
\* member is returned whether the update was done or failed
acceptInvitation_update ==
    \E p \in Requests :
    /\ ppc[p] = "acceptUpdate"
    /\ LET l == ploc[p]
       IN /\ \/ invites' = [invites EXCEPT ![l.invitationId].status = "accepted"]
             \/ UNCHANGED invites
          /\ PodFinish(p, Throw(l, 200, "-"))
    /\ UNCHANGED <<pods, members, msgVars>>

\* declineInvitation: the invitation is fetched and tested, then its status
\* is updated by id
declineInvitation ==
    \E p \in Requests :
       \/ \E invitationId \in InviteIds, userId \in {"s1", "s2"} :
             /\ ppc[p] = "idle"
             /\ LET l == [PodIdle EXCEPT !.op = "declineInvitation", !.userId = userId,
                                         !.invitationId = invitationId]
                    invitation == invites[invitationId]
                IN IF invitation = NoRow \/ invitation.invited_user_id # userId
                   THEN PodFinish(p, Throw(l, 404, "Invitation not found"))
                   ELSE IF invitation.status # "pending"
                   THEN PodFinish(p, Throw(l, 400, "Invitation is no longer pending"))
                   ELSE PodGoto(p, "declineUpdate", l)
             /\ UNCHANGED <<pods, members, invites, msgVars>>
       \/ /\ ppc[p] = "declineUpdate"
          /\ invites' = [invites EXCEPT ![ploc[p].invitationId].status = "declined"]
          /\ PodFinish(p, Throw(ploc[p], 200, "-"))
          /\ UNCHANGED <<pods, members, msgVars>>
       \/ /\ ppc[p] = "declineUpdate"
          /\ PodFinish(p, Throw(ploc[p], 500, "Failed to decline invitation"))
          /\ UNCHANGED <<pods, members, invites, msgVars>>

(***************************************************************************)
(* leavePod                                                                *)
(***************************************************************************)
leavePod_call ==
    \E p \in Requests, podId \in PodIds, userId \in PodUsers :
    /\ ppc[p] = "idle"
    /\ LET l == [PodIdle EXCEPT !.op = "leavePod", !.podId = podId, !.userId = userId]
       IN IF ~singleMember(members, podId, userId)
          THEN PodFinish(p, Throw(l, 404, "Not a member of this pod"))
          ELSE IF memberRole(members, podId, userId) = "admin"
          THEN PodGoto(p, "leaveCount", l)
          ELSE PodGoto(p, "leaveDelete", l)
    /\ UNCHANGED <<pods, members, invites, msgVars>>

onlyAdminNever(count) == FALSE

\* (count || 0) === 1
onlyAdmin(count) == count = 1

OnlyAdminMessage ==
    "Cannot leave pod as the only admin. Transfer admin role first or delete the pod."

leavePod_count ==
    \E p \in Requests :
    /\ ppc[p] = "leaveCount"
    /\ LET l == ploc[p]
       IN IF onlyAdmin(adminCount(members, l.podId))
          THEN PodFinish(p, Throw(l, 400, OnlyAdminMessage))
          ELSE PodGoto(p, "leaveDelete", l)
    /\ UNCHANGED <<pods, members, invites, msgVars>>

deleteMemberOfPod(m, podId, userId) ==
    [k \in MemberKeys |-> IF k[1] = podId THEN 0 ELSE m[k]]

\* study_pod_members.delete().eq('pod_id', podId).eq('user_id', userId)
deleteMember(m, podId, userId) ==
    [k \in MemberKeys |-> IF k[1] = podId /\ k[2] = userId THEN 0 ELSE m[k]]

leavePod_delete ==
    \E p \in Requests :
    /\ ppc[p] = "leaveDelete"
    /\ LET l == ploc[p]
       IN /\ members' = deleteMember(members, l.podId, l.userId)
          /\ PodFinish(p, Throw(l, 200, "-"))
    /\ UNCHANGED <<pods, invites, msgVars>>

\* the route answers and the slot takes the next request
podRespond ==
    \E p \in Requests :
    /\ ppc[p] = "done"
    /\ ppc' = [ppc EXCEPT ![p] = "idle"]
    /\ ploc' = [ploc EXCEPT ![p] = PodIdle]
    /\ UNCHANGED <<cgVars, actVars, pods, members, invites, msgVars, webVars>>

(***************************************************************************)
(* The pod requests.  The database holds no pod, or pod 1 created by the   *)
(* teacher t1, who is its admin; in some databases the student s2 holds    *)
(* the admin role of pod 1 as well (the service itself only ever writes    *)
(* one admin row per pod, in createPod; the role column and the admin      *)
(* count of leavePod allow more).  An insert fails or succeeds call by     *)
(* call.                                                                   *)
(***************************************************************************)
\* no pod yet; pod 1 with its creator; pod 1 with its creator and a second admin
InitPods ==
    { [pod |-> [i \in PodIds |-> NoId], member |-> [k \in MemberKeys |-> 0]] }
    \cup
    { [pod |-> [i \in PodIds |-> IF i = 1 THEN "t1" ELSE NoId],
       member |-> [k \in MemberKeys |->
                      IF k = <<1, "t1", "admin">> THEN 1
                      ELSE IF k = <<1, "s2", "admin">> THEN n ELSE 0]] : n \in {0, 1} }

InitPod ==
    /\ users = [id \in AuthIds |-> IF id = "t1" THEN <<"teacher">> ELSE <<"student">>]
    /\ rels = [pr \in Pairs |-> 0]
    /\ down = {}
    /\ pc = [p \in Requests |-> "idle"]
    /\ loc = [p \in Requests |-> Idle]
    /\ ActivityOff /\ WebOff
    /\ \E db \in InitPods : pods = db.pod /\ members = db.member
    /\ invites = [i \in InviteIds |-> NoRow]
    /\ messages = <<>>
    /\ aiQueue = {}
    /\ ppc = [p \in Requests |-> "idle"]
    /\ ploc = [p \in Requests |-> PodIdle]


PodNext ==
    \/ createPod_call
    \/ createPod_addCreator
    \/ joinPod_call
    \/ joinPod_existing
    \/ joinPod_insert
    \/ sendInvitation_call
    \/ sendInvitation_existingMember
    \/ sendInvitation_existingInvitation
    \/ sendInvitation_insert
    \/ acceptInvitation_call
    \/ acceptInvitation_insert
    \/ acceptInvitation_update
    \/ declineInvitation
    \/ leavePod_call
    \/ leavePod_count
    \/ leavePod_delete
    \/ podRespond

SpecPod == InitPod /\ [][PodNext]_vars

(***************************************************************************)
(* Pod messages.  The file holds two definitions of PodService.sendMessage.*)
(* The first (lines 214-272) awaits the AI completion and attaches its     *)
(* answer to the message before it returns; its steps are sendMessage1_.   *)
(* The second (lines 929-983) returns after the insert and, for a message  *)
(* that mentions @studycare, starts getAIHelp without awaiting it; its     *)
(* steps are sendMessage_ and getAIHelp_.                                  *)
(***************************************************************************)
MaxMessages == 3          \* rows of pod_messages
MaxAICalls == 2           \* getAIHelp calls in flight

AICallIds == 1..MaxAICalls
NoGuidance == "-"
Guidance == "guidance"

Contents == { <<"h", "i">>, <<"@", "S", "t", "u", "d", "y", "C", "a", "r", "e">> }

\* String.prototype.includes
includes(str, sub) ==
    \E i \in 1..(Len(str) - Len(sub) + 1) : SubSeq(str, i, i + Len(sub) - 1) = sub

\* content.toLowerCase().includes('@studycare help') || ...includes('@studycare')
needsAIHelp(content) ==
    \/ includes(toLowerCase(content),
                <<"@", "s", "t", "u", "d", "y", "c", "a", "r", "e", " ", "h", "e", "l", "p">>)
    \/ includes(toLowerCase(content),
                <<"@", "s", "t", "u", "d", "y", "c", "a", "r", "e">>)

MsgIdle == [op |-> "-", podId |-> NoPod, userId |-> NoId, content |-> <<>>,
            messageId |-> 0, ai |-> "-", ai_guidance |-> NoGuidance,
            status |-> 0, message |-> "-"]

\* pod_messages.insert({pod_id, user_id, content})
InsertMessage(ms, podId, userId, content, guidance) ==
    Append(ms, [pod_id |-> podId, user_id |-> userId, content |-> content,
                ai_guidance |-> guidance])

podTabs == <<pods, members, invites>>

\* ---- sendMessage, first definition (lines 214-272) ----
sendMessage1_call ==
    \E p \in Requests, podId \in PodIds, userId \in {"s1", "s2"}, content \in Contents :
    /\ ppc[p] = "idle"
    /\ LET l == [MsgIdle EXCEPT !.op = "sendMessage1", !.podId = podId,
                                !.userId = userId, !.content = content]
       IN IF ~singleMember(members, podId, userId)
          THEN PodFinish(p, Throw(l, 403, "Not a member of this pod"))
          ELSE PodGoto(p, "send1Insert", l)
    /\ UNCHANGED <<podTabs, msgVars>>

sendMessage1_insert ==
    \E p \in Requests :
    /\ ppc[p] = "send1Insert"
    /\ LET l == ploc[p]
       IN \/ /\ PodFinish(p, Throw(l, 500, "Failed to send message"))
             /\ UNCHANGED messages
          \/ /\ Len(messages) < MaxMessages
             /\ messages' = InsertMessage(messages, l.podId, l.userId, l.content, NoGuidance)
             /\ PodGoto(p, "send1Context", [l EXCEPT !.messageId = Len(messages) + 1])
    /\ UNCHANGED <<podTabs, aiQueue>>

\* await this.getMessages(podId, 10), outside the try block
sendMessage1_getMessages ==
    \E p \in Requests :
    /\ ppc[p] = "send1Context"
    /\ LET l == ploc[p]
       IN \/ PodFinish(p, Throw(l, 500, "Failed to fetch messages"))
          \/ PodGoto(p, "send1AI", [l EXCEPT !.ai = "pending"])
    /\ UNCHANGED <<podTabs, msgVars>>

\* catch (error) { return message; }
catchReturnsMessage(l) == Throw([l EXCEPT !.ai = "rejected"], 200, "-")

\* await this.openai.chatCompletion(...) settles: it resolves, or it rejects
sendMessage1_chatCompletion ==
    \E p \in Requests :
    /\ ppc[p] = "send1AI"
    /\ LET l == ploc[p]
       IN \/ PodGoto(p, "send1Update", [l EXCEPT !.ai = "resolved", !.ai_guidance = Guidance])
          \/ PodFinish(p, catchReturnsMessage(l))
    /\ UNCHANGED <<podTabs, msgVars>>

\* pod_messages.update({ai_guidance}).eq('id', message.id); its result is not read
sendMessage1_update ==
    \E p \in Requests :
    /\ ppc[p] = "send1Update"
    /\ LET l == ploc[p]
       IN /\ \/ messages' = [messages EXCEPT ![l.messageId].ai_guidance = l.ai_guidance]
             \/ UNCHANGED messages
          /\ PodFinish(p, Throw(l, 200, "-"))
    /\ UNCHANGED <<podTabs, aiQueue>>

\* ---- sendMessage, second definition (lines 929-983) ----
sendMessage_call ==
    \E p \in Requests, podId \in PodIds, userId \in {"s1", "s2"}, content \in Contents :
    /\ ppc[p] = "idle"
    /\ LET l == [MsgIdle EXCEPT !.op = "sendMessage", !.podId = podId,
                                !.userId = userId, !.content = content]
       IN IF ~singleMember(members, podId, userId)
          THEN PodFinish(p, Throw(l, 403, "Not a member of this pod"))
          ELSE PodGoto(p, "sendInsert", l)
    /\ UNCHANGED <<podTabs, msgVars>>

\* the insert; then this.getAIHelp(podId, userId).catch(...) is started, not
\* awaited, and the message is returned
sendMessage_insert ==
    \E p \in Requests :
    /\ ppc[p] = "sendInsert"
    /\ LET l == ploc[p]
       IN \/ /\ PodFinish(p, Throw(l, 500, "Failed to send message"))
             /\ UNCHANGED msgVars
          \/ /\ Len(messages) < MaxMessages
             /\ messages' = InsertMessage(messages, l.podId, l.userId, l.content, NoGuidance)
             /\ IF needsAIHelp(l.content)
                THEN /\ \E free \in AICallIds : \A c \in aiQueue : c.n # free
                     /\ aiQueue' = aiQueue \cup
                           {[n |-> nextId(AICallIds, {c.n : c \in aiQueue}),
                             podId |-> l.podId, userId |-> l.userId,
                             messageId |-> Len(messages) + 1, pc |-> "membership"]}
                     /\ PodFinish(p, Throw([l EXCEPT !.messageId = Len(messages) + 1,
                                                     !.ai = "pending"], 200, "-"))
                ELSE /\ UNCHANGED aiQueue
                     /\ PodFinish(p, Throw([l EXCEPT !.messageId = Len(messages) + 1],
                                           200, "-"))
    /\ UNCHANGED podTabs

\* ---- getAIHelp (lines 985-1052), run detached by sendMessage ----
aiStep(c, label) == aiQueue' = (aiQueue \ {c}) \cup {[c EXCEPT !.pc = label]}

\* the call throws; .catch((error) => console.error(...)) ends it
aiCaught(c) == aiQueue' = aiQueue \ {c}

aiFrame == UNCHANGED <<cgVars, actVars, podTabs, ppc, ploc, webVars>>

getAIHelp_membership ==
    \E c \in aiQueue :
    /\ c.pc = "membership"
    /\ IF ~singleMember(members, c.podId, c.userId)
       THEN aiCaught(c)
       ELSE aiStep(c, "contextMembership")
    /\ UNCHANGED messages
    /\ aiFrame

\* getMessages(podId, 20, userId): its membership query
getAIHelp_getMessagesMembership ==
    \E c \in aiQueue :
    /\ c.pc = "contextMembership"
    /\ IF ~singleMember(members, c.podId, c.userId)
       THEN aiCaught(c)
       ELSE aiStep(c, "context")
    /\ UNCHANGED messages
    /\ aiFrame

\* getMessages(podId, 20, userId): its select
getAIHelp_getMessages ==
    \E c \in aiQueue :
    /\ c.pc = "context"
    /\ \/ aiCaught(c)
       \/ aiStep(c, "chatCompletion")
    /\ UNCHANGED messages
    /\ aiFrame

\* chatCompletion settles: it resolves, or it rejects and the catch block
\* throws 'Failed to get AI help'
getAIHelp_chatCompletion ==
    \E c \in aiQueue :
    /\ c.pc = "chatCompletion"
    /\ \/ aiStep(c, "aiInsert")
       \/ aiCaught(c)
    /\ UNCHANGED messages
    /\ aiFrame

\* the AI answer is inserted as a message of its own
getAIHelp_insert ==
    \E c \in aiQueue :
    /\ c.pc = "aiInsert"
    /\ \/ /\ Len(messages) < MaxMessages
          /\ messages' = InsertMessage(messages, c.podId, c.userId, Guidance, Guidance)
       \/ UNCHANGED messages
    /\ aiCaught(c)
    /\ aiFrame

InitMessage ==
    /\ users = [id \in AuthIds |-> IF id = "t1" THEN <<"teacher">> ELSE <<"student">>]
    /\ rels = [pr \in Pairs |-> 0]
    /\ down = {}
    /\ pc = [p \in Requests |-> "idle"]
    /\ loc = [p \in Requests |-> Idle]
    /\ ActivityOff /\ WebOff
    /\ pods = [i \in PodIds |-> IF i = 1 THEN "t1" ELSE NoId]
    /\ members = [k \in MemberKeys |->
                     IF k \in {<<1, "t1", "admin">>, <<1, "s1", "member">>} THEN 1 ELSE 0]
    /\ invites = [i \in InviteIds |-> NoRow]
    /\ messages = <<>>
    /\ aiQueue = {}
    /\ ppc = [p \in Requests |-> "idle"]
    /\ ploc = [p \in Requests |-> MsgIdle]


MessageNext ==
    \/ sendMessage1_call
    \/ sendMessage1_insert
    \/ sendMessage1_getMessages
    \/ sendMessage1_chatCompletion
    \/ sendMessage1_update
    \/ sendMessage_call
    \/ sendMessage_insert
    \/ getAIHelp_membership
    \/ getAIHelp_getMessagesMembership
    \/ getAIHelp_getMessages
    \/ getAIHelp_chatCompletion
    \/ getAIHelp_insert
    \/ leavePod_call
    \/ leavePod_count
    \/ leavePod_delete
    \/ podRespond

SpecMessage == InitMessage /\ [][MessageNext]_vars

(***************************************************************************)
(* Properties.                                                             *)
(***************************************************************************)
Kid == <<"k", "i", "d">>

\* the linkChild calls of caregiver g for the email of student s1
CallsFor(g) ==
    {p \in Requests : /\ loc[p].op = "linkChild"
                      /\ loc[p].caregiverId = g
                      /\ loc[p].email = Kid}

\* the deployment can create a profile row and a relationship row at all
Workable ==
    /\ ~({"create_user_profile", "users_insert"} \subseteq down)
    /\ ~({"caregiver_children_insert", "link_caregiver_child"} \subseteq down)

TypedStatus == {201, 400, 404, 500}

\* C1: when the concurrent linkChild calls of one caregiver for a student with
\* an authentication identity and no profile row have all ended, in a
\* deployment that can create the rows, exactly one of them succeeded, there
\* is exactly one caregiver_children row for the pair and exactly one profile
\* row for the child, and every call ended with a result or a typed error.
C1_ConcurrentLinkOnce ==
    \A g \in Caregivers :
        (CallsFor(g) # {} /\ Workable /\ \A p \in CallsFor(g) : pc[p] = "done")
        => /\ Cardinality({p \in CallsFor(g) : loc[p].status = 201}) = 1
           /\ rels[<<g, "s1">>] = 1
           /\ Len(users["s1"]) = 1
           /\ \A p \in CallsFor(g) : loc[p].status \in TypedStatus

\* two calls of one caregiver raced: one linked, the other lost the insert
C1_Witness ==
    \E p, q \in Requests :
        /\ p # q /\ {p, q} \subseteq CallsFor("g1")
        /\ pc[p] = "done" /\ pc[q] = "done"
        /\ loc[p].status = 201
        /\ loc[q].status = 500 /\ loc[q].message = "Failed to link child"
        /\ loc[q].authUser = "s1" /\ loc[p].authUser = "s1"

LinkedStudent(g, email) ==
    {c \in AuthIds : rels[<<g, c>>] = 1 /\ toLowerCase(AuthEmail(c)) = email}

\* C3: a linkChild call for an email whose student is already linked to the
\* caregiver resolves that student and, at its existence check, finding the
\* row, fails with 400 'Child is already linked to this caregiver' and leaves
\* the relationship rows unchanged.
C3_AlreadyLinkedConflict ==
    [][\A p \in Requests :
          /\ (pc[p] = "idle" /\ loc'[p].op = "linkChild"
               /\ LinkedStudent(loc'[p].caregiverId, loc'[p].email) # {})
              => /\ pc'[p] = "existing"
                 /\ loc'[p].child \in LinkedStudent(loc'[p].caregiverId, loc'[p].email)
          /\ (pc[p] = "existing" /\ pc'[p] # "existing"
               /\ rels[<<loc[p].caregiverId, loc[p].child>>] = 1)
              => /\ pc'[p] = "done"
                 /\ loc'[p].status = 400
                 /\ loc'[p].message = "Child is already linked to this caregiver"
                 /\ rels' = rels]_vars

C3_Witness ==
    \E p \in Requests :
        /\ pc[p] = "done" /\ loc[p].op = "linkChild" /\ loc[p].status = 400
        /\ loc[p].message = "Child is already linked to this caregiver"
        /\ rels[<<loc[p].caregiverId, loc[p].child>>] = 1

\* C4: unlinkChild(caregiver, child) returns without error leaving no row for
\* the pair, and a getLinkedChildren(caregiver) that reads while the pair has
\* no row (no link was made since) returns a list without that child.
C4_UnlinkedChildOmitted ==
    [][\A p \in Requests :
          /\ (pc[p] = "idle" /\ loc'[p].op = "unlinkChild")
              => /\ pc'[p] = "done" /\ loc'[p].status = 200
                 /\ rels'[<<loc'[p].caregiverId, loc'[p].child>>] = 0
          /\ (pc[p] = "idle" /\ loc'[p].op = "getLinkedChildren")
              => \A c \in ChildIds :
                    rels[<<loc'[p].caregiverId, c>>] = 0 => loc'[p].children[c] = 0
          /\ (pc[p] = "childrenData" /\ pc'[p] = "done")
              => loc'[p].children = loc[p].children /\ loc'[p].status = 200]_vars

\* the unlink of one child has returned and the caregiver's list, read after
\* it, holds the other child only
C4_Witness ==
    \E p, q \in Requests :
        /\ pc[q] = "done" /\ loc[q].op = "unlinkChild" /\ loc[q].status = 200
        /\ loc[q].caregiverId = "g1" /\ loc[q].child = "s1"
        /\ pc[p] = "done" /\ loc[p].op = "getLinkedChildren"
        /\ loc[p].caregiverId = "g1"
        /\ loc[p].children = [c \in ChildIds |-> IF c = "s2" THEN 1 ELSE 0]
        /\ rels[<<"g1", "s1">>] = 0 /\ rels[<<"g2", "s1">>] = 1

\* C10: linkChild ends with 404 when no authentication identity matches the
\* email, and with 400 when the profile resolved for the email has a role
\* other than student; in both cases the relationship rows are unchanged, and
\* a relationship row is only ever added by a call that returns 201.
C10_RejectsUnknownAndNonStudent ==
    [][\A p \in Requests :
          /\ (pc[p] = "idle" /\ loc'[p].op = "linkChild"
               /\ findAuthUser(loc'[p].email) = NoId)
              => /\ pc'[p] = "done" /\ loc'[p].status = 404
                 /\ loc'[p].message = "Child account not found"
                 /\ rels' = rels
          /\ (pc[p] \in {"existingProfile", "verifyProfile"} /\ pc'[p] # pc[p]
               /\ HasProfile(users, loc[p].authUser)
               /\ ProfileRole(users, loc[p].authUser) # "student")
              => /\ pc'[p] = "done" /\ loc'[p].status = 400
                 /\ loc'[p].message = "Account found but is registered as another role"
                 /\ rels' = rels
          /\ (loc'[p].op = "linkChild" /\ pc[p] # "done" /\ pc'[p] = "done"
               /\ loc'[p].status # 201)
              => rels' = rels]_vars

\* both rejections have happened and no row was added for either email
C10_Witness ==
    \E p, q \in Requests :
        /\ pc[p] = "done" /\ loc[p].op = "linkChild" /\ loc[p].status = 404
        /\ loc[p].email = <<"n", "o">>
        /\ pc[q] = "done" /\ loc[q].op = "linkChild" /\ loc[q].status = 400
        /\ loc[q].authUser = "t1"
        /\ \A g \in Caregivers : rels[<<g, "t1">>] = 0


\* C5: getChildActivity for a pair with no caregiver_children row fails at its
\* first query with 403 'Child not linked to this caregiver', whether or not
\* a user with the child id exists, having read no table but caregiver_children.
C5_UnlinkedActivityForbidden ==
    [][\A g \in Caregivers, c \in ChildIds :
          (act.pc = "idle" /\ act'.pc # "idle" /\ act'.caregiverId = g
           /\ act'.childId = c /\ rels[<<g, c>>] = 0)
          => /\ act'.pc = "done"
             /\ act'.status = 403
             /\ act'.message = "Child not linked to this caregiver"
             /\ act'.reads = {"caregiver_children"}
             /\ act'.recent_activity = <<>>]_vars

\* refused for an id of no user while the child of another pair has activity
C5_Witness ==
    /\ act.pc = "done" /\ act.status = 403 /\ act.childId = "ghost"
    /\ Count(notes) > 0 /\ Count(sessions) > 0

NonIncreasing(list) ==
    \A i \in 1..(Len(list) - 1) : list[i].created_at >= list[i + 1].created_at

StrictlyDecreasing(list) ==
    \A i \in 1..(Len(list) - 1) : list[i].created_at > list[i + 1].created_at

\* C6 (as amended): the recent_activity list of every report has at most 10
\* entries and is sorted by timestamp descending, each entry's timestamp
\* being later than or equal to the next entry's.
C6_TimelineSortedBounded ==
    act.pc = "done" /\ act.status = 200
    => /\ Len(act.recent_activity) <= ActivityCap
       /\ NonIncreasing(act.recent_activity)

\* a full timeline that mixes notes and sessions of both timestamps
C6_Witness ==
    /\ act.pc = "done" /\ act.status = 200
    /\ Len(act.recent_activity) = ActivityCap
    /\ \E i, j \in 1..ActivityCap :
          /\ act.recent_activity[i].type = "note"
          /\ act.recent_activity[j].type = "chat"
          /\ i > j
          /\ act.recent_activity[j].created_at > act.recent_activity[i].created_at
    /\ \E i, j \in 1..ActivityCap :
          /\ act.recent_activity[i].type = "chat"
          /\ act.recent_activity[j].type = "note"
          /\ i > j
          /\ act.recent_activity[j].created_at > act.recent_activity[i].created_at

\* C6 (as claimed): the list has at most 10 entries and each entry's timestamp
\* is later than the next entry's.
C6_TimelineStrictlySorted ==
    act.pc = "done" /\ act.status = 200
    => /\ Len(act.recent_activity) <= ActivityCap
       /\ StrictlyDecreasing(act.recent_activity)

(***************************************************************************)
(* Properties of the pod service                                           *)
(***************************************************************************)
\* C7: in every reachable state, under any interleaving of createPod,
\* joinPod, acceptInvitation and leavePod calls, every existing pod has at
\* least one member whose role is admin.
C7_PodKeepsAdmin ==
    \A podId \in PodIds : PodExists(pods, podId) => adminCount(members, podId) >= 1

\* the same for the pods that have had their admin: a pod with an admin keeps
\* one through every step of the service
PodAdminRetained ==
    [][\A podId \in PodIds :
          adminCount(members, podId) >= 1 => adminCount(members', podId) >= 1]_vars

\* the steps of the leavePod call in slot p
LeaveCalled(p) == ppc[p] = "idle" /\ ploc'[p].op = "leavePod"
LeaveCounted(p) == ppc[p] = "leaveCount" /\ ppc'[p] # "leaveCount"
LeaveDeleted(p) == ppc[p] = "leaveDelete" /\ ppc'[p] # "leaveDelete"

OnlyAdminOf(m, podId, userId) ==
    m[<<podId, userId, "admin">>] = 1 /\ adminCount(m, podId) = 1

Inserted(p) == ploc[p].op \in {"sendMessage1", "sendMessage"} /\ ploc[p].messageId # 0

\* the message of the send in slot p is a row of pod_messages
Persisted(p) ==
    /\ ploc[p].messageId <= Len(messages)
    /\ messages[ploc[p].messageId].user_id = ploc[p].userId
    /\ messages[ploc[p].messageId].content = ploc[p].content

\* a send that has inserted its message keeps it in pod_messages, and a send
\* whose AI call settled, either way, returns the message with status 200
SendKeepsMessage ==
    \A p \in Requests :
        Inserted(p) =>
            /\ Persisted(p)
            /\ ppc[p] = "done" /\ ploc[p].ai # "-" => ploc[p].status = 200

\* C9: once the insert of the user's message succeeded the message stays
\* persisted and sendMessage returns it with status 200 whatever the AI call
\* does: an AI call that failed has not turned the send into an error, and
\* a send never stands waiting for an AI call that has not completed (it has
\* returned, or its next step does not need the AI answer).
C9_SendSurvivesAI ==
    \A p \in Requests :
        Inserted(p) =>
            /\ Persisted(p)
            /\ ppc[p] = "done" /\ ploc[p].ai # "-" => ploc[p].status = 200
            /\ ploc[p].ai = "pending" => ppc[p] = "done" /\ ploc[p].status = 200

(***************************************************************************)
(* Properties of the caregiver service, continued                          *)
(***************************************************************************)
\* the identity whose email, in lower case, is the trimmed and lower-cased
\* spelling
IdentityOf(spelling) ==
    {id \in AuthIds : toLowerCase(AuthEmail(id)) = toLowerCase(trim(spelling))}

\* C11: linkChild resolves the child by the email in lower case and without
\* surrounding whitespace: two spellings equal after trim and lowercase are
\* searched as the same email and resolve the same student, a spelling of an
\* identity's email is never answered 'Child account not found', a successful
\* link leaves exactly one row for the caregiver and that student, and
\* getLinkedChildren returns exactly one entry for each child with one row.
C11_EmailSpellingResolves ==
    [][\A p \in Requests :
        LET l == loc'[p]
        IN /\ l.op = "linkChild"
              => /\ l.child # NoId => l.child \in IdentityOf(l.childEmail)
                 /\ l.authUser # NoId => l.authUser \in IdentityOf(l.childEmail)
                 /\ (l.status = 404 /\ l.message = "Child account not found")
                    => IdentityOf(l.childEmail) = {}
                 /\ \A q \in Requests :
                       (loc'[q].op = "linkChild"
                        /\ toLowerCase(trim(loc'[q].childEmail))
                           = toLowerCase(trim(l.childEmail)))
                       => /\ loc'[q].email = l.email
                          /\ (loc'[q].child # NoId /\ l.child # NoId)
                             => loc'[q].child = l.child
                 /\ (pc[p] # "done" /\ pc'[p] = "done" /\ l.status = 201)
                    => rels'[<<l.caregiverId, l.child>>] = 1
           /\ (pc[p] = "idle" /\ l.op = "getLinkedChildren")
              => \A c \in ChildIds :
                    rels[<<l.caregiverId, c>>] = 1 => l.children[c] = 1]_vars

\* a link made with the padded upper-case spelling of the first student's
\* email has succeeded, and the caregiver's list holds one entry, that student's
C11_Witness ==
    \E p, q \in Requests :
        /\ pc[p] = "done" /\ loc[p].op = "linkChild" /\ loc[p].status = 201
        /\ loc[p].childEmail = <<" ", "K", "I", "D", " ">> /\ loc[p].child = "s1"
        /\ loc[p].caregiverId = "g2"
        /\ pc[q] = "done" /\ loc[q].op = "getLinkedChildren"
        /\ loc[q].caregiverId = "g2"
        /\ loc[q].children = [c \in ChildIds |-> IF c = "s1" THEN 1 ELSE 0]

\* C12: for a linked child with N notes and M study sessions getChildActivity
\* returns notes_count = N and chat_sessions_count = M, the full totals; with
\* 6 notes and 7 sessions recent_activity has exactly 10 entries, newest first.
C12_ActivityTotals ==
    [][/\ (act.pc = "counts" /\ act'.pc # "counts")
           => /\ act'.notes_count = BagSize(notes, MaxTime)
              /\ act'.chat_sessions_count = BagSize(sessions, MaxTime)
       /\ (act.pc = "recentSessions" /\ act'.pc = "done")
           => /\ act'.status = 200
              /\ act'.notes_count = BagSize(notes, MaxTime)
              /\ act'.chat_sessions_count = BagSize(sessions, MaxTime)
              /\ (BagSize(notes, MaxTime) = 6 /\ BagSize(sessions, MaxTime) = 7)
                 => /\ Len(act'.recent_activity) = 10
                    /\ NonIncreasing(act'.recent_activity)]_vars

C12_Witness ==
    /\ act.pc = "done" /\ act.status = 200
    /\ act.notes_count = 6 /\ act.chat_sessions_count = 7
    /\ BagSize(notes, MaxTime) = 6 /\ BagSize(sessions, MaxTime) = 7
    /\ Len(act.recent_activity) = 10

\* C13: unlinkChild for a (caregiver, child) pair that has no relationship row
\* returns without error and leaves the relationship table unchanged; in
\* general it removes the rows of that pair only, so unlinking twice has the
\* effect of unlinking once.
C13_UnlinkIdempotent ==
    [][\A p \in Requests :
          (pc[p] = "idle" /\ pc'[p] = "done" /\ loc'[p].op = "unlinkChild")
          => LET g == loc'[p].caregiverId
                 c == loc'[p].child
             IN /\ loc'[p].status = 200
                /\ rels' = [rels EXCEPT ![<<g, c>>] = 0]
                /\ rels[<<g, c>>] = 0 => rels' = rels]_vars

C13_Witness ==
    \E p, q \in Requests :
       /\ p # q
       /\ pc[p] = "done" /\ loc[p].op = "unlinkChild" /\ loc[p].status = 200
       /\ pc[q] = "done" /\ loc[q].op = "unlinkChild" /\ loc[q].status = 200
       /\ loc[p].caregiverId = "g1" /\ loc[p].child = "ghost"
       /\ loc[q].caregiverId = "g1" /\ loc[q].child = "ghost"
       /\ rels[<<"g1", "s2">>] = 1

(***************************************************************************)
(* NoteService.createNote / updateNote and StudentService.joinClass: the   *)
(* class association of a note.  Each await is one step.                   *)
(***************************************************************************)
MaxNoteRows == 1      \* rows the notes table can hold
MaxEnrollRows == 2    \* rows of one (class, student) pair in class_students

NoteIds == 1..MaxNoteRows

ClassIds == {"c1", "c2"}

\* the callers of the note routes and of /join-class
NoteUsers == {"s1", "s2"}

\* class_id of a request body is "undefined" (absent), "null" or a class id
NoteIdle == [op |-> "-", userId |-> NoId, class_id |-> "undefined", noteId |-> 0,
             status |-> 0, message |-> "-"]

NoteGoto(p, label, l) ==
    /\ npc' = [npc EXCEPT ![p] = label]
    /\ nloc' = [nloc EXCEPT ![p] = l]
    /\ UNCHANGED <<cgVars, actVars, podVars, mpc, mloc, svcVars>>

enrollmentAlways(cs, class_id, userId) == TRUE

\* .from('class_students').select('id').eq('class_id', class_id)
\* .eq('student_id', userId).single(), then !(enrollmentError || !enrollment)
enrollment(cs, class_id, userId) ==
    class_id \in ClassIds /\ cs[<<class_id, userId>>] = 1

\* data.class_id || null
orNull(class_id) == IF class_id \in {"undefined", "null"} THEN "null" ELSE class_id

\* createNote, first await when data.class_id is truthy: the enrolment query
createNote_enrollment ==
    \E p \in Requests, userId \in NoteUsers, class_id \in ClassIds :
       LET l == [NoteIdle EXCEPT !.op = "createNote", !.userId = userId,
                                 !.class_id = class_id]
       IN /\ npc[p] = "idle"
          /\ IF enrollment(classStudents, class_id, userId)
             THEN NoteGoto(p, "createNote_insert", l)
             ELSE NoteGoto(p, "done", [l EXCEPT !.status = 403,
                                          !.message = "You are not enrolled in this class"])
          /\ UNCHANGED <<classStudents, classNotes>>

\* createNote, the insert into notes: the first await of a call without
\* class_id, the second one of a call with class_id
createNote_insert ==
    \E p \in Requests :
       \E l \in IF npc[p] = "createNote_insert" THEN {nloc[p]}
                ELSE IF npc[p] = "idle"
                THEN {[NoteIdle EXCEPT !.op = "createNote", !.userId = userId,
                                       !.class_id = class_id] :
                         userId \in NoteUsers, class_id \in {"undefined", "null"}}
                ELSE {} :
          /\ UNCHANGED classStudents
          /\ \/ /\ \E id \in NoteIds :
                      /\ classNotes[id] = NoRow
                      /\ \A j \in NoteIds : j < id => classNotes[j] # NoRow
                      /\ classNotes' = [classNotes EXCEPT ![id] =
                                           [user_id |-> l.userId,
                                            class_id |-> orNull(l.class_id)]]
                      /\ NoteGoto(p, "done", [l EXCEPT !.status = 201, !.noteId = id])
             \/ /\ UNCHANGED classNotes
                /\ NoteGoto(p, "done", [l EXCEPT !.status = 500,
                                           !.message = "Failed to create note"])

\* updateNote, first await when data.class_id is neither undefined nor null
updateNote_enrollment ==
    \E p \in Requests, userId \in NoteUsers, class_id \in ClassIds, noteId \in NoteIds :
       LET l == [NoteIdle EXCEPT !.op = "updateNote", !.userId = userId,
                                 !.class_id = class_id, !.noteId = noteId]
       IN /\ npc[p] = "idle"
          /\ IF enrollment(classStudents, class_id, userId)
             THEN NoteGoto(p, "updateNote_update", l)
             ELSE NoteGoto(p, "done", [l EXCEPT !.status = 403,
                                          !.message = "You are not enrolled in this class"])
          /\ UNCHANGED <<classStudents, classNotes>>

\* updateNote, .update(updateData).eq('id', noteId).eq('user_id', userId).single()
updateNote_update ==
    \E p \in Requests :
       \E l \in IF npc[p] = "updateNote_update" THEN {nloc[p]}
                ELSE IF npc[p] = "idle"
                THEN {[NoteIdle EXCEPT !.op = "updateNote", !.userId = userId,
                                       !.class_id = class_id, !.noteId = noteId] :
                         userId \in NoteUsers, class_id \in {"undefined", "null"},
                         noteId \in NoteIds}
                ELSE {} :
          /\ UNCHANGED classStudents
          /\ IF classNotes[l.noteId] # NoRow /\ classNotes[l.noteId].user_id = l.userId
             THEN /\ classNotes' = [classNotes EXCEPT ![l.noteId].class_id =
                                       IF l.class_id = "undefined" THEN @
                                       ELSE orNull(l.class_id)]
                  /\ NoteGoto(p, "done", [l EXCEPT !.status = 200])
             ELSE /\ UNCHANGED classNotes
                  /\ NoteGoto(p, "done", [l EXCEPT !.status = 500,
                                             !.message = "Failed to update note"])

\* joinClass: the class of the code is found, then the existing-enrolment query
\* (the students of the model join the first class only)
joinClass_existing ==
    \E p \in Requests, studentId \in NoteUsers, class_id \in {"c1"} :
       LET l == [NoteIdle EXCEPT !.op = "joinClass", !.userId = studentId,
                                 !.class_id = class_id]
       IN /\ npc[p] = "idle"
          /\ IF classStudents[<<class_id, studentId>>] = 1
             THEN NoteGoto(p, "done", [l EXCEPT !.status = 400,
                                          !.message = "Already joined this class"])
             ELSE NoteGoto(p, "joinClass_insert", l)
          /\ UNCHANGED <<classStudents, classNotes>>

\* joinClass: .from('class_students').insert({class_id, student_id})
joinClass_insert ==
    \E p \in Requests :
       LET l == nloc[p]
           k == <<l.class_id, l.userId>>
       IN /\ npc[p] = "joinClass_insert"
          /\ UNCHANGED classNotes
          /\ IF classStudents[k] < MaxEnrollRows
             THEN /\ classStudents' = [classStudents EXCEPT ![k] = @ + 1]
                  /\ NoteGoto(p, "done", [l EXCEPT !.status = 201])
             ELSE /\ UNCHANGED classStudents
                  /\ NoteGoto(p, "done", [l EXCEPT !.status = 500,
                                             !.message = "Failed to join class"])

\* the route answers and the slot is free again
noteRespond ==
    \E p \in Requests :
       /\ npc[p] = "done"
       /\ npc' = [npc EXCEPT ![p] = "idle"]
       /\ nloc' = [nloc EXCEPT ![p] = NoteIdle]
       /\ UNCHANGED <<cgVars, actVars, podVars, mpc, mloc, classStudents, classNotes, svcVars>>

InitNote ==
    /\ users = [id \in AuthIds |-> IF id = "t1" THEN <<"teacher">> ELSE <<"student">>]
    /\ rels = [pr \in Pairs |-> 0]
    /\ down = {}
    /\ pc = [p \in Requests |-> "idle"]
    /\ loc = [p \in Requests |-> Idle]
    /\ ActivityOff /\ PodsOff
    /\ classStudents \in
          { [k \in ClassIds \X NoteUsers |-> IF k = <<"c1", "s1">> THEN n ELSE 0] :
               n \in {0, 1} }
    /\ classNotes = [id \in NoteIds |-> NoRow]
    /\ npc = [p \in Requests |-> "idle"]
    /\ nloc = [p \in Requests |-> NoteIdle]
    /\ mpc = <<>> /\ mloc = <<>>
    /\ SvcOff

NoteNext ==
    \/ createNote_enrollment
    \/ createNote_insert
    \/ updateNote_enrollment
    \/ updateNote_update
    \/ joinClass_existing
    \/ joinClass_insert
    \/ noteRespond

SpecNote == InitNote /\ [][NoteNext]_vars

\* the class association of every note is backed by an enrolment of its owner
NoteClassEnrolled ==
    \A id \in NoteIds :
       (classNotes[id] # NoRow /\ classNotes[id].class_id # "null")
       => classStudents[<<classNotes[id].class_id, classNotes[id].user_id>>] >= 1

\* C14: createNote and updateNote with a class_id for which the caller has no
\* class_students row fail with 403 and create or modify no note, and in
\* every reachable state each note with a class_id has an owner enrolled in
\* that class.
C14_ClassNeedsEnrollment ==
    /\ []NoteClassEnrolled
    /\ [][\A p \in Requests :
             LET l == nloc'[p]
             IN (/\ npc[p] = "idle" /\ npc'[p] # "idle"
                 /\ l.op \in {"createNote", "updateNote"}
                 /\ l.class_id \in ClassIds
                 /\ classStudents[<<l.class_id, l.userId>>] = 0)
                => /\ npc'[p] = "done" /\ l.status = 403
                   /\ classNotes' = classNotes]_vars

C14_Witness ==
    \E p, q \in Requests :
       /\ npc[p] = "done" /\ nloc[p].op = "createNote" /\ nloc[p].status = 403
       /\ nloc[p].userId = "s2" /\ nloc[p].class_id = "c1"
       /\ npc[q] = "done" /\ nloc[q].op = "updateNote" /\ nloc[q].status = 403
       /\ nloc[q].userId = "s1" /\ nloc[q].class_id = "c2" /\ nloc[q].noteId = 1
       /\ classNotes[1] = [user_id |-> "s1", class_id |-> "c1"]
       /\ classStudents[<<"c1", "s1">>] = 1
       /\ classStudents[<<"c1", "s2">>] = 0 /\ classStudents[<<"c2", "s1">>] = 0

(***************************************************************************)
(* authMiddleware and roleMiddleware in front of the route handlers.  The  *)
(* auth provider knows three tokens; the users table holds the profiles.   *)
(***************************************************************************)
startsWithIgnoreCase(s, prefix) ==
    /\ Len(s) >= Len(prefix)
    /\ toLowerCase(SubSeq(s, 1, Len(prefix))) = toLowerCase(prefix)

\* String.prototype.startsWith
startsWith(s, prefix) ==
    Len(s) >= Len(prefix) /\ SubSeq(s, 1, Len(prefix)) = prefix

\* supabase.auth.getUser(token): the user of a token the provider accepts
getUser(token) ==
    CASE token = <<"a">> -> "g1"
      [] token = <<"b">> -> "s1"
      [] token = <<"c">> -> "g2"
      [] OTHER -> NoId

\* the route groups: their handlers and the roles of their role gate
Routes ==
    { [name |-> n, gated |-> TRUE, allowedRoles |-> {"caregiver"}] :
         n \in {"link-child", "children", "activity", "unlink"} }
    \cup { [name |-> "notes", gated |-> FALSE, allowedRoles |-> {}],
           [name |-> "join-class", gated |-> TRUE, allowedRoles |-> {"student"}] }

MwIdle == [header |-> <<>>, route |-> "-", user |-> NoId,
           reqUser |-> [id |-> NoId, role |-> "-"], ran |-> FALSE,
           status |-> 0, message |-> "-"]

roleMiddlewareAllowsAll(allowedRoles, l) == [l EXCEPT !.ran = TRUE]

\* roleMiddleware(allowedRoles)(req, res, next), next() being the handler
roleMiddleware(allowedRoles, l) ==
    IF l.reqUser.id = NoId
    THEN [l EXCEPT !.status = 401, !.message = "User not authenticated"]
    ELSE IF l.reqUser.role \notin allowedRoles
    THEN [l EXCEPT !.status = 403, !.message = "Insufficient permissions"]
    ELSE [l EXCEPT !.ran = TRUE]

\* next() of authMiddleware: the rest of the router's chain
next(l) ==
    LET route == CHOOSE r \in Routes : r.name = l.route
    IN IF route.gated THEN roleMiddleware(route.allowedRoles, l)
       ELSE [l EXCEPT !.ran = TRUE]

authMiddleware ==
    \E p \in Requests :
       LET l == mloc[p]
           Step(label, m) == /\ mpc' = [mpc EXCEPT ![p] = label]
                             /\ mloc' = [mloc EXCEPT ![p] = m]
           Fail(status, message) ==
               Step("done", [l EXCEPT !.status = status, !.message = message])
           \* req.user = {id: userData.id, role: userData.role, ...}; next()
           Attach(u) ==
               Step("done", next([l EXCEPT !.reqUser =
                                     [id |-> l.user, role |-> ProfileRole(u, l.user)]]))
       IN /\ UNCHANGED <<rels, down, pc, loc, actVars, podVars, svcVars,
                         classStudents, classNotes, npc, nloc>>
          /\ \/ \* the header test and supabase.auth.getUser(token)
                /\ mpc[p] = "idle"
                /\ UNCHANGED users
                /\ \E authHeader \in
                         { <<>>,
                           <<"B", "a", "s", "i", "c", " ", "a">>,
                           <<"b", "e", "a", "r", "e", "r", " ", "a">>,
                           <<"B", "e", "a", "r", "e", "r", " ">>,
                           <<"B", "e", "a", "r", "e", "r", " ", "x">>,
                           <<"B", "e", "a", "r", "e", "r", " ", "a">>,
                           <<"B", "e", "a", "r", "e", "r", " ", "b">>,
                           <<"B", "e", "a", "r", "e", "r", " ", "c">> },
                      route \in Routes :
                      LET m == [MwIdle EXCEPT !.header = authHeader, !.route = route.name]
                          token == SubSeq(authHeader, 8, Len(authHeader))
                      IN IF authHeader = <<>>
                            \/ ~startsWith(authHeader, <<"B", "e", "a", "r", "e", "r", " ">>)
                         THEN Step("done", [m EXCEPT !.status = 401,
                                     !.message = "No authorization token provided"])
                         ELSE IF getUser(token) = NoId
                         THEN Step("done", [m EXCEPT !.status = 401,
                                     !.message = "Invalid or expired token"])
                         ELSE Step("userData", [m EXCEPT !.user = getUser(token)])
             \/ \* .from('users').select('*').eq('id', user.id).single()
                /\ mpc[p] = "userData"
                /\ UNCHANGED users
                /\ IF HasProfile(users, l.user) THEN Attach(users)
                   ELSE Step("rpc", l)
             \/ \* supabase.rpc('create_user_profile', {p_role: user_metadata.role || 'student'})
                /\ mpc[p] = "rpc"
                /\ LET role == IF l.user \in Caregivers THEN "caregiver" ELSE "student"
                       r == create_user_profile(users, l.user, role)
                   IN IF "create_user_profile" \in down
                      THEN /\ UNCHANGED users
                           /\ Fail(500, "Failed to create user profile. Please contact support.")
                      ELSE IF r.ok
                      THEN users' = r.table /\ Step("verifyData", l)
                      ELSE IF isDuplicateKey(r.code)
                      THEN UNCHANGED users /\ Step("retryData", l)
                      ELSE /\ UNCHANGED users
                           /\ Fail(500, "Failed to create user profile. Please contact support.")
             \/ \* the profile is read again after a duplicate-key error
                /\ mpc[p] = "retryData"
                /\ UNCHANGED users
                /\ IF HasProfile(users, l.user) THEN Attach(users)
                   ELSE Fail(500, "User profile exists but could not be retrieved. Please contact support.")
             \/ \* the profile is read again after the procedure created it
                /\ mpc[p] = "verifyData"
                /\ UNCHANGED users
                /\ IF HasProfile(users, l.user) THEN Attach(users)
                   ELSE Fail(500, "User profile was created but could not be verified. Please try again.")

\* the handler or the error handler answers and the slot is free again
mwRespond ==
    \E p \in Requests :
       /\ mpc[p] = "done"
       /\ mpc' = [mpc EXCEPT ![p] = "idle"]
       /\ mloc' = [mloc EXCEPT ![p] = MwIdle]
       /\ UNCHANGED <<cgVars, actVars, podVars, classStudents, classNotes, npc, nloc, svcVars>>

InitAuth ==
    /\ users = [id \in AuthIds \cup Caregivers |->
                   CASE id = "g1" -> <<"caregiver">>
                     [] id = "s1" -> <<"student">>
                     [] id = "t1" -> <<"teacher">>
                     [] OTHER     -> <<>>]
    /\ rels = [pr \in Pairs |-> 0]
    /\ down \in { {}, {"create_user_profile"} }
    /\ pc = [p \in Requests |-> "idle"]
    /\ loc = [p \in Requests |-> Idle]
    /\ ActivityOff /\ PodsOff
    /\ classStudents = <<>> /\ classNotes = <<>> /\ npc = <<>> /\ nloc = <<>>
    /\ mpc = [p \in Requests |-> "idle"]
    /\ mloc = [p \in Requests |-> MwIdle]
    /\ SvcOff

AuthNext == authMiddleware \/ mwRespond

SpecAuth == InitAuth /\ [][AuthNext]_vars

\* the user of the token of an Authorization header, NoId when the header
\* is missing, is not a Bearer header, or carries a token the provider rejects
TokenOwner(header) ==
    CASE header = <<"B", "e", "a", "r", "e", "r", " ", "a">> -> "g1"
      [] header = <<"B", "e", "a", "r", "e", "r", " ", "b">> -> "s1"
      [] header = <<"B", "e", "a", "r", "e", "r", " ", "c">> -> "g2"
      [] OTHER -> NoId

\* C15: a request reaches its route handler only when the Authorization
\* header carries a Bearer token the auth provider accepts, and then req.user
\* is the profile of that token's user; a missing header, a non-Bearer header
\* or a rejected token always yields a 401 error and the handler is never run.
C15_AuthGate ==
    [][\A p \in Requests :
          LET l == mloc'[p]
          IN /\ l.ran => /\ TokenOwner(l.header) # NoId
                         /\ l.reqUser.id = TokenOwner(l.header)
                         /\ HasProfile(users', l.reqUser.id)
                         /\ l.reqUser.role = ProfileRole(users', l.reqUser.id)
             /\ (mpc[p] = "idle" /\ mpc'[p] # "idle" /\ TokenOwner(l.header) = NoId)
                => mpc'[p] = "done" /\ l.status = 401 /\ ~l.ran]_vars

C15_Witness ==
    \E p, q \in Requests :
       /\ mpc[p] = "done" /\ mloc[p].ran /\ mloc[p].route = "notes"
       /\ mloc[p].header = <<"B", "e", "a", "r", "e", "r", " ", "c">>
       /\ mloc[p].reqUser = [id |-> "g2", role |-> "caregiver"]
       /\ mpc[q] = "done" /\ mloc[q].status = 401 /\ ~mloc[q].ran
       /\ mloc[q].header = <<"b", "e", "a", "r", "e", "r", " ", "a">>

\* C16: on a route group guarded by roleMiddleware(allowedRoles) a request
\* whose authenticated user's role is not in allowedRoles always gets a 403
\* error and never reaches the handler; every caregiver route runs only for
\* callers with role caregiver.
C16_RoleGate ==
    \A p \in Requests :
       LET l == mloc[p]
       IN mpc[p] = "done" =>
             /\ \A r \in Routes :
                   (/\ r.name = l.route /\ r.gated
                    /\ l.reqUser.id # NoId /\ l.reqUser.role \notin r.allowedRoles)
                   => l.status = 403 /\ ~l.ran
             /\ (l.ran /\ l.route \in {"link-child", "children", "activity", "unlink"})
                => /\ l.reqUser.role = "caregiver"
                   /\ ProfileRole(users, l.reqUser.id) = "caregiver"

C16_Witness ==
    \E p, q \in Requests :
       /\ mpc[p] = "done" /\ mloc[p].route = "link-child"
       /\ mloc[p].reqUser = [id |-> "s1", role |-> "student"]
       /\ mloc[p].status = 403 /\ ~mloc[p].ran
       /\ mpc[q] = "done" /\ mloc[q].route = "unlink"
       /\ mloc[q].reqUser = [id |-> "g1", role |-> "caregiver"] /\ mloc[q].ran

\* C17: a pod invitation's status only ever moves from pending to accepted or
\* from pending to declined: acceptInvitation and declineInvitation on an
\* invitation whose status is not pending fail with 400 and leave the status
\* unchanged, so accepted and declined are final.
C17_InvitationLifecycle ==
    [][/\ \A i \in InviteIds :
             (invites[i] # NoRow /\ invites'[i].status # invites[i].status)
             => /\ invites[i].status = "pending"
                /\ invites'[i].status \in {"accepted", "declined"}
       /\ \A p \in Requests :
             LET l == ploc'[p]
             IN (/\ ppc[p] = "idle" /\ ppc'[p] # "idle"
                 /\ l.op \in {"acceptInvitation", "declineInvitation"}
                 /\ invites[l.invitationId] # NoRow
                 /\ invites[l.invitationId].invited_user_id = l.userId
                 /\ invites[l.invitationId].status # "pending")
                => /\ ppc'[p] = "done" /\ l.status = 400
                   /\ invites' = invites]_vars

\* the part of C17 about calls made on an invitation that is not pending
C17_NonPendingRejected ==
    [][\A p \in Requests :
          LET l == ploc'[p]
          IN (/\ ppc[p] = "idle" /\ ppc'[p] # "idle"
              /\ l.op \in {"acceptInvitation", "declineInvitation"}
              /\ invites[l.invitationId] # NoRow
              /\ invites[l.invitationId].invited_user_id = l.userId
              /\ invites[l.invitationId].status # "pending")
             => /\ ppc'[p] = "done" /\ l.status = 400
                /\ invites' = invites]_vars

\* the ways a linkChild call can end once it has reached the link step
LinkStepOutcome(l) ==
    /\ l.child = l.authUser
    /\ \/ l.status = 201
       \/ l.status = 400 /\ l.message = "Child is already linked to this caregiver"
       \/ l.status = 500 /\ l.message = "Failed to link child"

\* a call that met a duplicate-key error goes on with the existing row
Recovered(p, refetch) ==
    /\ pc[p] \in {refetch, "verifyProfile", "existing", "insert", "rpcLink", "done"}
    /\ HasProfile(users, loc[p].authUser)
    /\ pc[p] \in {"existing", "insert", "rpcLink"} => loc[p].child = loc[p].authUser
    /\ pc[p] = "done" => LinkStepOutcome(loc[p])

\* C18: when create_user_profile fails with a duplicate-key error and the
\* profile row exists, the row is fetched again and linkChild continues to
\* the link step with it; the duplicate-key error is never surfaced.
C18_DuplicateRpcRecovered ==
    /\ [](\A p \in Requests : loc[p].rpcError = "23505" => Recovered(p, "retryProfile"))
    /\ [][\A p \in Requests :
             (/\ pc[p] = "rpcCreate" /\ pc'[p] # "rpcCreate"
              /\ "create_user_profile" \notin down
              /\ Len(users[loc[p].authUser]) >= 1)
             => /\ pc'[p] = "retryProfile"
                /\ loc'[p].rpcError = "23505"
                /\ users' = users]_vars

C18_Witness ==
    \E p \in Requests :
       /\ pc[p] = "done" /\ loc[p].op = "linkChild" /\ loc[p].rpcError = "23505"
       /\ loc[p].status = 201 /\ loc[p].child = "s1"
       /\ rels[<<loc[p].caregiverId, "s1">>] = 1

\* C19: when create_user_profile fails with an error that is not a
\* duplicate-key error, a direct insert of the profile row is attempted; if
\* that insert fails with a duplicate-key error the existing row is fetched
\* and used, and only a non-duplicate insert failure ends the call with an
\* error.
C19_DirectInsertFallback ==
    /\ [](\A p \in Requests :
             /\ loc[p].insertErr = "23505" => Recovered(p, "fetchProfile")
             /\ (loc[p].rpcError \notin {"-", "23505"} /\ pc[p] = "done")
                => IF loc[p].insertErr \in {"-", "23505"}
                   THEN LinkStepOutcome(loc[p])
                   ELSE /\ loc[p].status = 500
                        /\ loc[p].message = "Failed to create user profile")
    /\ [][\A p \in Requests :
             (/\ pc[p] = "rpcCreate" /\ pc'[p] # "rpcCreate"
              /\ "create_user_profile" \in down)
             => /\ pc'[p] = "directInsert"
                /\ loc'[p].rpcError \notin {"-", "23505"}]_vars

C19_Witness ==
    \E p \in Requests :
       /\ pc[p] = "done" /\ loc[p].op = "linkChild"
       /\ loc[p].rpcError = "42883" /\ loc[p].insertErr = "23505"
       /\ loc[p].status = 201 /\ loc[p].child = "s1"
       /\ rels[<<loc[p].caregiverId, "s1">>] = 1

\* C20: when the direct insert of the relationship row fails, the procedure
\* link_caregiver_child is called once for the same (caregiver, child) pair
\* and its result is returned as the relationship; the call ends with
\* 'Failed to link child' (500) only when both the insert and the procedure
\* fail, and then no relationship row was added by this call.
C20_LinkFallback ==
    [][\A p \in Requests :
          LET l == loc[p]
              pair == <<l.caregiverId, l.child>>
              added == [rels EXCEPT ![pair] = 1]
              failed == /\ pc'[p] = "done" /\ loc'[p].status = 500
                        /\ loc'[p].message = "Failed to link child"
          IN /\ (pc[p] = "insert" /\ pc'[p] # "insert")
                => IF "caregiver_children_insert" \in down \/ rels[pair] >= 1
                   THEN /\ pc'[p] = "rpcLink" /\ rels' = rels
                        /\ loc'[p].caregiverId = l.caregiverId
                        /\ loc'[p].child = l.child
                        /\ loc'[p].relationshipError # "-"
                   ELSE pc'[p] = "done" /\ loc'[p].status = 201 /\ rels' = added
             /\ (pc[p] = "rpcLink" /\ pc'[p] # "rpcLink")
                => /\ l.relationshipError # "-"
                   /\ IF "link_caregiver_child" \in down \/ rels[pair] >= 1
                      THEN failed /\ rels' = rels
                      ELSE pc'[p] = "done" /\ loc'[p].status = 201 /\ rels' = added
             /\ (pc[p] # "done" /\ failed) => pc[p] = "rpcLink"]_vars

C20_Witness ==
    \E p, q \in Requests :
       /\ pc[p] = "done" /\ loc[p].op = "linkChild" /\ loc[p].status = 201
       /\ loc[p].relationshipError = "42501"
       /\ pc[q] = "done" /\ loc[q].op = "linkChild" /\ loc[q].status = 500
       /\ loc[q].message = "Failed to link child"
       /\ loc[q].relationshipError = "42501"
       /\ loc[q].caregiverId = loc[p].caregiverId /\ loc[q].child = loc[p].child
       /\ rels[<<loc[p].caregiverId, loc[p].child>>] = 1

\* C21: with a valid token and no profile row authMiddleware provisions the
\* profile with the same fallback as linkChild: the privileged procedure
\* first, re-fetch and continue on a duplicate-key failure, on any other
\* failure a direct insert with the same tolerance; when provisioning ends
\* with an existing row the request proceeds with that profile attached.
C21_SameProvisioning ==
    [][\A p \in Requests :
          LET l == mloc[p]
          IN /\ (mpc[p] = "rpc" /\ mpc'[p] # "rpc")
                => IF "create_user_profile" \in down
                   THEN \* linkChild goes on to the direct insert of the row
                        "users_insert" \notin down => mpc'[p] # "done"
                   ELSE mpc'[p] \in {"retryData", "verifyData"}
             /\ (/\ mpc[p] \in {"retryData", "verifyData"} /\ mpc'[p] = "done"
                 /\ HasProfile(users, l.user))
                => /\ mloc'[p].reqUser.id = l.user
                   /\ mloc'[p].reqUser.role = ProfileRole(users, l.user)]_vars

\* the part of C21 that authMiddleware does share with linkChild
C21_DuplicateRecovered ==
    [][\A p \in Requests :
          LET l == mloc[p]
          IN /\ (mpc[p] = "rpc" /\ mpc'[p] # "rpc" /\ "create_user_profile" \notin down)
                => mpc'[p] \in {"retryData", "verifyData"}
             /\ (/\ mpc[p] \in {"retryData", "verifyData"} /\ mpc'[p] = "done"
                 /\ HasProfile(users, l.user))
                => /\ mloc'[p].reqUser.id = l.user
                   /\ mloc'[p].reqUser.role = ProfileRole(users, l.user)]_vars

\* the rows of the bag created at t that are among its 5 most recent rows
TopRows(bag, t) ==
    LET later == BagSize(bag, MaxTime) - BagSize(bag, t)
        room == IF later >= 5 THEN 0 ELSE 5 - later
    IN IF bag[t] < room THEN bag[t] ELSE room

Entries(list, type, t) ==
    Cardinality({i \in 1..Len(list) : list[i] = [type |-> type, created_at |-> t]})

C23_CreatePodNoRollback ==
    [][\A p \in Requests :
          LET l == ploc'[p]
          IN /\ (ppc[p] = "idle" /\ ppc'[p] = "addCreator")
                => /\ l.op = "createPod"
                   /\ ~PodExists(pods, l.podId) /\ PodExists(pods', l.podId)
                   /\ \A k \in MemberKeys : k[1] = l.podId => members'[k] = 0
             /\ (ppc[p] = "addCreator" /\ ppc'[p] = "done" /\ l.status # 201)
                => /\ l.status = 500
                   /\ l.message = "Failed to add creator as pod member"
                   /\ pods' = pods /\ PodExists(pods', l.podId)
                   /\ members' = members
                   /\ \A r \in Roles : members'[<<l.podId, l.userId, r>>] = 0]_vars

C23_Witness ==
    \E p \in Requests :
       /\ ppc[p] = "done" /\ ploc[p].op = "createPod" /\ ploc[p].status = 500
       /\ ploc[p].message = "Failed to add creator as pod member"
       /\ PodExists(pods, ploc[p].podId)
       /\ \A k \in MemberKeys : k[1] = ploc[p].podId => members[k] = 0

\* C24: unlinkChild(caregiver, child) removes only the relationship row of
\* that exact pair: the links of the same caregiver to other children, the
\* links of other caregivers to the same child, and all user profiles are
\* unchanged.
C24_UnlinkFrame ==
    [][\A p \in Requests :
          (pc[p] = "idle" /\ pc'[p] = "done" /\ loc'[p].op = "unlinkChild")
          => LET g == loc'[p].caregiverId
                 c == loc'[p].child
             IN /\ rels'[<<g, c>>] = 0
                /\ \A pr \in Pairs : pr # <<g, c>> => rels'[pr] = rels[pr]
                /\ users' = users]_vars

C24_Witness ==
    \E p \in Requests :
       /\ pc[p] = "done" /\ loc[p].op = "unlinkChild"
       /\ loc[p].caregiverId = "g1" /\ loc[p].child = "s1"
       /\ rels[<<"g1", "s1">>] = 0
       /\ rels[<<"g1", "s2">>] = 1 /\ rels[<<"g2", "s1">>] = 1

(***************************************************************************)
(* ChatService: getSession and sendMessage on the table study_sessions and *)
(* chat_messages.  Each await is one step.                                 *)
(***************************************************************************)
MaxChatMessages == 2    \* rows the table chat_messages can hold

ChatSessionIds == {"x1", "x2"}

\* the callers of the chat service: two students and a teacher
ChatUsers == {"s1", "s2", "t1"}

\* the texts of a message: "solve" is a keyword of the subject math
ChatTexts == {"hi", "solve"}

NoSession == [user_id |-> NoId, subject |-> "null"]

ChatIdle == [op |-> "-", sessionId |-> "-", userId |-> NoId, userRole |-> "undefined",
             text |-> "-", session |-> NoSession, subject |-> "null",
             status |-> 0, message |-> "-"]

\* detectSubject: the first subject one of whose keywords the message includes
detectSubject(text) == IF text = "solve" THEN "math" ELSE "null"

\* .from('study_sessions').select('*').eq('id', sessionId), with
\* .eq('user_id', userId) when userRole !== 'student', then .single():
\* NoSession stands for (error || !session)
getSession(ss, sessionId, userId, userRole) ==
    IF /\ ss[sessionId] # NoSession
       /\ userRole # "student" => ss[sessionId].user_id = userId
    THEN ss[sessionId]
    ELSE NoSession

ChatGoto(p, label, l) ==
    /\ cpc' = [cpc EXCEPT ![p] = label]
    /\ cloc' = [cloc EXCEPT ![p] = l]
    /\ UNCHANGED <<cgVars, actVars, podVars, classStudents, classNotes, npc, nloc,
                   mpc, mloc, regVars, cacheVars, metricVars>>

\* insert into chat_messages of a row of the running call
InsertChatMessage(l, message_type) ==
    /\ Len(chatMessages) < MaxChatMessages
    /\ chatMessages' = Append(chatMessages,
                              [session_id |-> l.sessionId, user_id |-> l.userId,
                               message_type |-> message_type])

\* the route GET /session/:id and every other caller of getSession: one await
chatGetSession ==
    \E p \in Requests, sessionId \in ChatSessionIds, userId \in ChatUsers :
       \E userRole \in {"undefined", ProfileRole(users, userId)} :
          LET l == [ChatIdle EXCEPT !.op = "getSession", !.sessionId = sessionId,
                                    !.userId = userId, !.userRole = userRole]
              session == getSession(studySessions, sessionId, userId, userRole)
          IN /\ cpc[p] = "idle"
             /\ UNCHANGED <<studySessions, chatMessages>>
             /\ IF session = NoSession
                THEN ChatGoto(p, "done", [l EXCEPT !.status = 404,
                                             !.message = "Session not found"])
                ELSE ChatGoto(p, "done", [l EXCEPT !.status = 200, !.session = session])

\* sendMessage: the awaits in the order of the code
chatSendMessage ==
    \E p \in Requests :
       LET l == cloc[p]
           Fail(status, message) ==
               ChatGoto(p, "done", [l EXCEPT !.status = status, !.message = message])
       IN \* await this.getSession(sessionId, userId, userRole)
          \/ \E sessionId \in ChatSessionIds, userId \in ChatUsers, text \in ChatTexts :
                \E userRole \in {"undefined", ProfileRole(users, userId)} :
                   LET c == [ChatIdle EXCEPT !.op = "sendMessage",
                                !.sessionId = sessionId, !.userId = userId,
                                !.userRole = userRole, !.text = text]
                       session == getSession(studySessions, sessionId, userId, userRole)
                   IN /\ cpc[p] = "idle"
                      /\ UNCHANGED <<studySessions, chatMessages>>
                      /\ IF session = NoSession
                         THEN ChatGoto(p, "done", [c EXCEPT !.status = 404,
                                                      !.message = "Session not found"])
                         ELSE ChatGoto(p, "history", [c EXCEPT !.session = session])
          \* await this.getMessageHistory(sessionId, 10), then
          \* session.subject || (await this.detectSubject(message))
          \/ /\ cpc[p] = "history"
             /\ UNCHANGED <<studySessions, chatMessages>>
             /\ \/ LET subject == IF l.session.subject # "null" THEN l.session.subject
                                  ELSE detectSubject(l.text)
                   IN IF subject # "null" /\ l.session.subject = "null"
                      THEN ChatGoto(p, "updateSubject", [l EXCEPT !.subject = subject])
                      ELSE ChatGoto(p, "insertUser", [l EXCEPT !.subject = subject])
                \/ Fail(500, "Failed to fetch message history")
          \* .from('study_sessions').update({ subject }).eq('id', sessionId),
          \* its result is not looked at
          \/ /\ cpc[p] = "updateSubject"
             /\ \/ studySessions' = [studySessions EXCEPT
                                        ![l.sessionId].subject = l.subject]
                \/ UNCHANGED studySessions
             /\ UNCHANGED chatMessages
             /\ ChatGoto(p, "insertUser", l)
          \* the insert of the user's message
          \/ /\ cpc[p] = "insertUser"
             /\ UNCHANGED studySessions
             /\ \/ InsertChatMessage(l, "user") /\ ChatGoto(p, "user", l)
                \/ UNCHANGED chatMessages /\ Fail(500, "Failed to save user message")
          \* .from('users').select('simplified_mode').eq('id', userId).single()
          \/ /\ cpc[p] = "user"
             /\ UNCHANGED <<studySessions, chatMessages>>
             /\ ChatGoto(p, "chatCompletion", l)
          \* await this.openai.chatCompletion(messages, ...)
          \/ /\ cpc[p] = "chatCompletion"
             /\ UNCHANGED <<studySessions, chatMessages>>
             /\ \/ ChatGoto(p, "insertAssistant", l)
                \/ Fail(500, "OpenAI API error")
          \* the insert of the assistant's message
          \/ /\ cpc[p] = "insertAssistant"
             /\ UNCHANGED studySessions
             /\ \/ /\ InsertChatMessage(l, "assistant")
                   /\ ChatGoto(p, "done", [l EXCEPT !.status = 200])
                \/ UNCHANGED chatMessages /\ Fail(500, "Failed to save assistant message")

chatRespond ==
    \E p \in Requests :
       /\ cpc[p] = "done"
       /\ UNCHANGED <<studySessions, chatMessages>>
       /\ ChatGoto(p, "idle", ChatIdle)

\* the session x1 belongs to the student s1; there is no session x2
InitChat ==
    /\ users = [id \in AuthIds |-> IF id = "t1" THEN <<"teacher">> ELSE <<"student">>]
    /\ rels = [pr \in Pairs |-> 0]
    /\ down = {}
    /\ pc = [p \in Requests |-> "idle"]
    /\ loc = [p \in Requests |-> Idle]
    /\ ActivityOff /\ PodsOff
    /\ classStudents = <<>> /\ classNotes = <<>> /\ npc = <<>> /\ nloc = <<>>
    /\ mpc = <<>> /\ mloc = <<>>
    /\ studySessions = [id \in ChatSessionIds |->
                           IF id = "x1" THEN [user_id |-> "s1", subject |-> "null"]
                           ELSE NoSession]
    /\ chatMessages = <<>>
    /\ cpc = [p \in Requests |-> "idle"]
    /\ cloc = [p \in Requests |-> ChatIdle]
    /\ RegOff /\ CacheOff /\ MetricsOff

ChatNext == chatGetSession \/ chatSendMessage \/ chatRespond

SpecChat == InitChat /\ [][ChatNext]_vars

\* C25: a study session is readable and writable only by the user it belongs
\* to: for every caller role, getSession and sendMessage on a session whose
\* user_id differs from the caller's id fail with 404 'Session not found' and
\* insert no chat message into that session.
C25_OwnerOnly ==
    [][\A p \in Requests :
          /\ (/\ cpc[p] = "idle" /\ cpc'[p] # "idle"
              /\ studySessions[cloc'[p].sessionId].user_id # cloc'[p].userId)
             => /\ cpc'[p] = "done"
                /\ cloc'[p].status = 404
                /\ cloc'[p].message = "Session not found"
          /\ (/\ cpc[p] \in {"insertUser", "insertAssistant"}
              /\ chatMessages' # chatMessages)
             => studySessions[cloc[p].sessionId].user_id = cloc[p].userId]_vars

\* the part of C25 the code keeps: a caller that passes no role, or a role
\* other than student, is refused every session that is not its own
C25_NonStudentOwnerOnly ==
    [][\A p \in Requests :
          (/\ cpc[p] = "idle" /\ cpc'[p] # "idle"
           /\ cloc'[p].userRole # "student"
           /\ studySessions[cloc'[p].sessionId].user_id # cloc'[p].userId)
          => /\ cpc'[p] = "done"
             /\ cloc'[p].status = 404
             /\ cloc'[p].message = "Session not found"
             /\ chatMessages' = chatMessages]_vars

\* a student's message stored in the session of another student
C25_ForeignMessage ==
    \E i \in 1..Len(chatMessages) :
       /\ chatMessages[i].session_id = "x1"
       /\ chatMessages[i].user_id = "s2"
       /\ studySessions["x1"].user_id = "s1"

\* C26: in every reachable state a user has at most one membership row per
\* pod, after any sequence or interleaving of createPod, joinPod,
\* sendInvitation, acceptInvitation and leavePod; a user who is already a
\* member is never added again by joinPod or by accepting an earlier invitation.
C26_OneMembershipRow ==
    \A podId \in PodIds, userId \in PodUsers : memberRows(members, podId, userId) <= 1

\* the part of C26 the code keeps: joinPod called by a member of the pod is
\* refused with 400 and inserts nothing
C26_JoinPodRefusesMember ==
    [][\A p \in Requests :
          (/\ ppc[p] = "joinExisting" /\ ppc'[p] # "joinExisting"
           /\ singleMember(members, ploc[p].podId, ploc[p].userId))
          => /\ ppc'[p] = "done"
             /\ ploc'[p].status = 400
             /\ ploc'[p].message = "Already a member of this pod"
             /\ members' = members]_vars

\* an invitation accepted by a user who had joined the pod in the meantime
C26_MemberTwice ==
    \E p \in Requests :
       /\ ppc[p] = "done" /\ ploc[p].op = "acceptInvitation" /\ ploc[p].status = 200
       /\ memberRows(members, ploc[p].podId, ploc[p].userId) = 2

\* the requests that have added the membership row of invitation i and have
\* not answered yet
AcceptedBy(i) ==
    {p \in Requests : /\ ploc[p].op = "acceptInvitation" /\ ploc[p].invitationId = i
                      /\ \/ ppc[p] = "acceptUpdate"
                         \/ ppc[p] = "done" /\ ploc[p].status = 200}

\* C27: acceptInvitation keeps invitation status and membership consistent:
\* whenever it adds the invited user's membership row, the invitation ends with
\* status accepted and never stays pending, so the same invitation cannot be
\* accepted a second time, sequentially or concurrently.
C27_AcceptedOnce ==
    /\ [](\A i \in InviteIds : Cardinality(AcceptedBy(i)) <= 1)
    /\ [][\A p \in Requests :
             /\ (ppc[p] = "acceptInsert" /\ members' # members)
                => invites[ploc[p].invitationId].status = "pending"
             /\ (ppc[p] = "acceptUpdate" /\ ppc'[p] = "done")
                => invites'[ploc[p].invitationId].status = "accepted"]_vars

\* the part of C27 the code keeps: acceptInvitation called on an invitation
\* whose status is not pending adds no membership row
C27_NonPendingAddsNothing ==
    [][\A p \in Requests :
          (/\ ppc[p] = "idle" /\ ppc'[p] # "idle" /\ ploc'[p].op = "acceptInvitation"
           /\ invites[ploc'[p].invitationId].status # "pending")
          => /\ ppc'[p] = "done" /\ ploc'[p].status \in {400, 404}
             /\ members' = members]_vars

\* one invitation accepted by two requests, each of which added a row
C27_AcceptedTwice ==
    \E i \in InviteIds :
       /\ Cardinality(AcceptedBy(i)) = 2
       /\ memberRows(members, invites[i].pod_id, invites[i].invited_user_id) = 2

\* an accepted call has answered 200 and its invitation is still pending
C27_StaysPending ==
    \E p \in Requests :
       /\ ppc[p] = "done" /\ ploc[p].op = "acceptInvitation" /\ ploc[p].status = 200
       /\ invites[ploc[p].invitationId].status = "pending"
       /\ \A q \in Requests \ {p} : ppc[q] = "idle"

(***************************************************************************)
(* AuthService.register: the identity of the authentication provider, then *)
(* the profile row by a direct insert and, failing that, by the privileged *)
(* procedure.  Each await is one step.                                     *)
(***************************************************************************)
\* the identities registrations ask for, one per email
NewIds == {"n1", "n2"}

\* what a deployment can lack or refuse during a registration
RegFacilities ==
    {"users_insert", "users_select", "create_user_profile", "deleteUser",
     "signInWithPassword"}

RegIdle == [id |-> NoId, userError |-> "-", status |-> 0, message |-> "-"]

deleteUserKeeps(ids, id) == ids

\* supabase.auth.admin.deleteUser(id)
deleteUser(ids, id) == ids \ {id}

register ==
    \E p \in Requests :
       LET l == rgloc[p]
           Step(label, c) ==
               /\ rgpc' = [rgpc EXCEPT ![p] = label]
               /\ rgloc' = [rgloc EXCEPT ![p] = c]
               /\ UNCHANGED <<rels, down, pc, loc, actVars, podVars, classStudents,
                              classNotes, npc, nloc, mpc, mloc, chatVars, cacheVars,
                              metricVars>>
           Fail(status, message) ==
               Step("done", [l EXCEPT !.status = status, !.message = message])
       IN \* supabase.auth.signUp({ email, password })
          \/ \E id \in NewIds :
                /\ rgpc[p] = "idle"
                /\ UNCHANGED users
                /\ IF id \in authIdentities
                   THEN /\ UNCHANGED authIdentities
                        /\ Step("done", [RegIdle EXCEPT !.id = id, !.status = 400,
                                            !.message = "User already registered"])
                   ELSE /\ authIdentities' = authIdentities \cup {id}
                        /\ Step("insert", [RegIdle EXCEPT !.id = id])
          \* the direct insert into users
          \/ /\ rgpc[p] = "insert"
             /\ UNCHANGED authIdentities
             /\ IF "users_insert" \in down
                THEN UNCHANGED users /\ Step("rpc", [l EXCEPT !.userError = "42501"])
                ELSE LET r == InsertUser(users, l.id, "student")
                     IN /\ users' = r.table
                        /\ IF r.ok THEN Step("verifyInsert", l)
                           ELSE Step("rpc", [l EXCEPT !.userError = r.code])
          \* the inserted row is read again
          \/ /\ rgpc[p] = "verifyInsert"
             /\ UNCHANGED <<users, authIdentities>>
             /\ IF "users_select" \notin down /\ HasProfile(users, l.id)
                THEN Step("session", l)
                ELSE Step("rpc", [l EXCEPT !.userError = "not verified"])
          \* supabase.rpc('create_user_profile', ...)
          \/ /\ rgpc[p] = "rpc"
             /\ UNCHANGED authIdentities
             /\ IF "create_user_profile" \in down
                THEN UNCHANGED users /\ Step("deleteUser", l)
                ELSE LET r == create_user_profile(users, l.id, "student")
                     IN /\ users' = r.table
                        /\ IF r.ok THEN Step("verifyRpc", l) ELSE Step("deleteUser", l)
          \* the row the procedure created is read again
          \/ /\ rgpc[p] = "verifyRpc"
             /\ UNCHANGED <<users, authIdentities>>
             /\ IF "users_select" \notin down /\ HasProfile(users, l.id)
                THEN Step("session", [l EXCEPT !.userError = "-"])
                ELSE Step("deleteUser", l)
          \* catch (rpcError): supabase.auth.admin.deleteUser in a try whose
          \* catch logs, then the error 500
          \/ /\ rgpc[p] = "deleteUser"
             /\ UNCHANGED users
             /\ authIdentities' = IF "deleteUser" \in down THEN authIdentities
                                  ELSE deleteUser(authIdentities, l.id)
             /\ Fail(500, "Failed to create user profile")
          \* authData.session, or updateUserById and signInWithPassword
          \/ /\ rgpc[p] = "session"
             /\ UNCHANGED <<users, authIdentities>>
             /\ \/ Step("done", [l EXCEPT !.status = 201])
                \/ Step("signIn", l)
          \/ /\ rgpc[p] = "signIn"
             /\ UNCHANGED <<users, authIdentities>>
             /\ IF "signInWithPassword" \in down
                THEN Fail(500, "Failed to create session")
                ELSE Step("done", [l EXCEPT !.status = 201])
          \* the answer of the route
          \/ /\ rgpc[p] = "done"
             /\ UNCHANGED <<users, authIdentities>>
             /\ Step("idle", RegIdle)

InitRegister ==
    /\ users = [id \in NewIds |-> <<>>]
    /\ rels = [pr \in Pairs |-> 0]
    /\ down \in SUBSET RegFacilities
    /\ pc = [p \in Requests |-> "idle"]
    /\ loc = [p \in Requests |-> Idle]
    /\ ActivityOff /\ PodsOff
    /\ classStudents = <<>> /\ classNotes = <<>> /\ npc = <<>> /\ nloc = <<>>
    /\ mpc = <<>> /\ mloc = <<>>
    /\ ChatOff /\ CacheOff /\ MetricsOff
    /\ authIdentities = {}
    /\ rgpc = [p \in Requests |-> "idle"]
    /\ rgloc = [p \in Requests |-> RegIdle]

SpecRegister == InitRegister /\ [][register]_vars

\* the statement of C28 as claimed: a registration whose profile creation
\* failed by both ways answers with its identity deleted
C28_IdentityDeleted ==
    [][\A p \in Requests :
          (rgpc[p] = "deleteUser" /\ rgpc'[p] = "done")
          => rgloc[p].id \notin authIdentities']_vars

\* C28: when register has created the authentication identity and the
\* profile row could be created neither by the direct insert nor by the
\* privileged procedure, deleteUser is called for the identity before the error
\* 500 is returned; the identity is gone when that call succeeds and is left
\* without a profile when it fails, the failure being ignored.
C28_DeleteAttempted ==
    [][\A p \in Requests :
          /\ (rgpc[p] \in {"rpc", "verifyRpc"} /\ rgpc'[p] # rgpc[p])
             => /\ rgpc'[p] \in {"verifyRpc", "session", "deleteUser"}
                /\ authIdentities' = authIdentities
          /\ (/\ rgpc[p] \notin {"deleteUser", "done"}
              /\ rgpc'[p] = "done" /\ rgloc'[p].status = 500)
             => rgpc[p] = "signIn" /\ HasProfile(users, rgloc[p].id)
          /\ (rgpc[p] = "deleteUser" /\ rgpc'[p] # "deleteUser")
             => /\ rgpc'[p] = "done" /\ rgloc'[p].status = 500
                /\ authIdentities' = IF "deleteUser" \in down THEN authIdentities
                                     ELSE authIdentities \ {rgloc[p].id}]_vars

\* both ways of creating the profile failed and the identity was deleted
C28_Witness ==
    \E p \in Requests :
       /\ rgpc[p] = "done" /\ rgloc[p].status = 500
       /\ {"users_insert", "create_user_profile"} \subseteq down
       /\ "deleteUser" \notin down
       /\ rgloc[p].id \notin authIdentities
       /\ ~HasProfile(users, rgloc[p].id)

\* the delete failed: an identity without a profile after the error
C28_Orphan ==
    \E p \in Requests :
       /\ rgpc[p] = "done" /\ rgloc[p].status = 500
       /\ rgloc[p].id \in authIdentities
       /\ ~HasProfile(users, rgloc[p].id)

(***************************************************************************)
(* Cache: the process-wide expiring key -> value store, and                *)
(* cacheMiddleware.  Time is counted in minutes.  A ttl argument is <<>>   *)
(* when it is not given and <<n>> when it is the number n.                 *)
(***************************************************************************)
MaxClock == 6       \* the minutes the clock runs

defaultTTL == 5     \* 5 * 60 * 1000 ms

CacheKeys == {"k1", "k2"}

CacheData == {"d1"}

TTLs == {<<>>, <<0>>, <<1>>}

\* ttl || this.defaultTTL: an absent ttl and the ttl 0 are both falsy
orDefaultTTL(ttl) ==
    IF ttl = <<>> THEN defaultTTL
    ELSE IF ttl[1] = 0 THEN defaultTTL ELSE ttl[1]

\* Map.set and Map.delete
mapSet(map, key, entry) ==
    [k \in DOMAIN map \cup {key} |-> IF k = key THEN entry ELSE map[k]]

mapDelete(map, key) == [k \in DOMAIN map \ {key} |-> map[k]]

\* Date.now() > entry.expiresAt
expired(entry) == clock > entry.expiresAt

\* what set does to the store and to the history
stored(key, value, ttl) ==
    /\ store' = mapSet(store, key, [data |-> value,
                                    expiresAt |-> clock + orDefaultTTL(ttl)])
    /\ lastSet' = mapSet(lastSet, key, [at |-> clock, ttl |-> ttl, data |-> value,
                                        live |-> TRUE])

\* what get does to the store, and its result in ret
got(op, key) ==
    /\ UNCHANGED lastSet
    /\ IF key \notin DOMAIN store
       THEN /\ UNCHANGED store
            /\ ret' = [op |-> op, key |-> key, value |-> "null"]
       ELSE IF expired(store[key])
       THEN /\ store' = mapDelete(store, key)
            /\ ret' = [op |-> op, key |-> key, value |-> "null"]
       ELSE /\ UNCHANGED store
            /\ ret' = [op |-> op, key |-> key, value |-> store[key].data]

cacheFrame ==
    UNCHANGED <<cgVars, actVars, podVars, classStudents, classNotes, npc, nloc,
                mpc, mloc, chatVars, regVars, metricVars>>

set ==
    \E key \in CacheKeys, value \in CacheData, ttl \in TTLs :
       /\ stored(key, value, ttl)
       /\ ret' = [op |-> "set", key |-> "-", value |-> "undefined"]
       /\ UNCHANGED <<clock, pending>> /\ cacheFrame

get ==
    \E key \in CacheKeys :
       got("get", key) /\ UNCHANGED <<clock, pending>> /\ cacheFrame

has ==
    \E key \in CacheKeys :
       /\ UNCHANGED <<lastSet, clock, pending>> /\ cacheFrame
       /\ IF key \notin DOMAIN store
          THEN /\ UNCHANGED store
               /\ ret' = [op |-> "has", key |-> key, value |-> "false"]
          ELSE IF expired(store[key])
          THEN /\ store' = mapDelete(store, key)
               /\ ret' = [op |-> "has", key |-> key, value |-> "false"]
          ELSE /\ UNCHANGED store
               /\ ret' = [op |-> "has", key |-> key, value |-> "true"]

delete ==
    \E key \in CacheKeys :
       /\ store' = mapDelete(store, key)
       /\ lastSet' = [k \in DOMAIN lastSet |->
                         IF k = key THEN [lastSet[k] EXCEPT !.live = FALSE]
                         ELSE lastSet[k]]
       /\ ret' = [op |-> "delete", key |-> "-", value |-> "undefined"]
       /\ UNCHANGED <<clock, pending>> /\ cacheFrame

clear ==
    /\ store' = <<>>
    /\ lastSet' = [k \in DOMAIN lastSet |-> [lastSet[k] EXCEPT !.live = FALSE]]
    /\ ret' = [op |-> "clear", key |-> "-", value |-> "undefined"]
    /\ UNCHANGED <<clock, pending>> /\ cacheFrame

\* also the callback of setInterval(..., 60 * 1000)
cleanup ==
    /\ store' = [k \in {x \in DOMAIN store : ~expired(store[x])} |-> store[k]]
    /\ ret' = [op |-> "cleanup", key |-> "-", value |-> "undefined"]
    /\ UNCHANGED <<lastSet, clock, pending>> /\ cacheFrame

\* cacheMiddleware(ttl): the request, answered from the cache or passed on
\* with res.json wrapped; and the wrapped res.json of a request passed on
cacheMiddleware ==
    \/ \E key \in CacheKeys :
          /\ got("cacheMiddleware", key)
          /\ pending' = IF ret'.value = "null" THEN pending \cup {key} ELSE pending
          /\ UNCHANGED clock /\ cacheFrame
    \/ \E key \in pending, data \in CacheData, ttl \in TTLs :
          /\ stored(key, data, IF ttl = <<>> THEN <<defaultTTL>> ELSE ttl)
          /\ ret' = [op |-> "res.json", key |-> "-", value |-> "undefined"]
          /\ pending' = pending \ {key}
          /\ UNCHANGED clock /\ cacheFrame

\* time passes
advance ==
    /\ clock < MaxClock
    /\ clock' = clock + 1
    /\ UNCHANGED <<store, lastSet, ret, pending>> /\ cacheFrame

InitCache ==
    /\ users = [id \in AuthIds |-> <<>>]
    /\ rels = [pr \in Pairs |-> 0]
    /\ down = {}
    /\ pc = [p \in Requests |-> "idle"]
    /\ loc = [p \in Requests |-> Idle]
    /\ ActivityOff /\ PodsOff
    /\ classStudents = <<>> /\ classNotes = <<>> /\ npc = <<>> /\ nloc = <<>>
    /\ mpc = <<>> /\ mloc = <<>>
    /\ ChatOff /\ RegOff /\ MetricsOff
    /\ store = <<>> /\ clock = 0 /\ lastSet = <<>> /\ pending = {}
    /\ ret = [op |-> "-", key |-> "-", value |-> "undefined"]

CacheNext ==
    set \/ get \/ has \/ delete \/ clear \/ cleanup \/ cacheMiddleware \/ advance

SpecCache == InitCache /\ [][CacheNext]_vars

\* the entries of a store whose expiry time has passed at time t
Expired(map, t) == {k \in DOMAIN map : t > map[k].expiresAt}

\* a call (a step that is not the passing of time): get and has remove the
\* expired entry of their key, cleanup removes every expired entry
RemovesExpired ==
    clock' = clock
    => /\ ret'.op \in {"get", "has", "cacheMiddleware"}
          => ret'.key \notin Expired(store', clock)
       /\ ret'.op = "cleanup" => Expired(store', clock) = {}

\* C29: the cache never returns an expired entry: get(key) returns a value
\* only if the latest set for that key happened at most its ttl ago (5 minutes
\* when no ttl is given) and no delete or clear followed it, and then it is the
\* value of that set; get, has and cleanup remove the entries whose expiry time
\* has passed.
C29_NeverExpired ==
    [][/\ (clock' = clock /\ ret'.op \in {"get", "cacheMiddleware"} /\ ret'.value # "null")
          => /\ ret'.key \in DOMAIN lastSet
             /\ LET s == lastSet[ret'.key]
                IN /\ s.live
                   /\ ret'.value = s.data
                   /\ clock - s.at <= (IF s.ttl = <<>> THEN defaultTTL ELSE s.ttl[1])
       /\ RemovesExpired]_vars

\* the part of C29 the code keeps: with the ttl 0 counted as not given
C29_NeverExpiredOrDefault ==
    [][/\ (clock' = clock /\ ret'.op \in {"get", "cacheMiddleware"} /\ ret'.value # "null")
          => /\ ret'.key \in DOMAIN lastSet
             /\ LET s == lastSet[ret'.key]
                IN /\ s.live
                   /\ ret'.value = s.data
                   /\ clock - s.at <= orDefaultTTL(s.ttl)
       /\ RemovesExpired]_vars

\* get returns a value set with the ttl 0 a minute earlier
C29_ZeroTTLServed ==
    /\ ret.op = "get" /\ ret.value # "null"
    /\ ret.key \in DOMAIN lastSet
    /\ lastSet[ret.key].ttl = <<0>> /\ lastSet[ret.key].live
    /\ clock > lastSet[ret.key].at

(***************************************************************************)
(* MetricsCollector and metricsMiddleware.  A record of counters by key    *)
(* (requestsByMethod, requestsByStatus, errorsByType) holds the keys that  *)
(* were counted at least once.                                             *)
(***************************************************************************)
MaxStarted == 3     \* requests that pass metricsMiddleware in a run
MaxErrors == 1      \* calls of recordError between two resets

Methods == {"GET", "POST"}

StatusCodes == {200, 500}

Durations == {1, 2}

\* record[key] = (record[key] || 0) + 1
countKey(record, key) ==
    [k \in DOMAIN record \cup {key} |->
        IF k = key THEN (IF key \in DOMAIN record THEN record[key] ELSE 0) + 1
        ELSE record[k]]

recordRequest(m, method, statusCode, duration) ==
    [m EXCEPT !.requests = @ + 1,
              !.requestsByMethod = countKey(@, method),
              !.requestsByStatus = countKey(@, statusCode),
              !.responseTimes =
                  LET times == Append(@, duration)
                  IN IF Len(times) > 1000
                     THEN SubSeq(times, Len(times) - 999, Len(times))
                     ELSE times]

incrementConnections(m) == [m EXCEPT !.activeConnections = @ + 1]

decrementConnections(m) ==
    [m EXCEPT !.activeConnections = IF @ - 1 > 0 THEN @ - 1 ELSE 0]

resetAlsoConnections(m) ==
    [m EXCEPT !.requests = 0, !.requestsByMethod = <<>>, !.requestsByStatus = <<>>,
              !.responseTimes = <<>>, !.errors = 0, !.errorsByType = <<>>,
              !.activeConnections = 0]

\* reset leaves activeConnections as it is
reset(m) ==
    [m EXCEPT !.requests = 0, !.requestsByMethod = <<>>, !.requestsByStatus = <<>>,
              !.responseTimes = <<>>, !.errors = 0, !.errorsByType = <<>>]

metricsFrame ==
    UNCHANGED <<cgVars, actVars, podVars, classStudents, classNotes, npc, nloc,
                mpc, mloc, chatVars, regVars, cacheVars>>

\* metricsMiddleware: a request passes it; later its response finishes and
\* the listener of 'finish' runs
metricsMiddleware ==
    \/ \E method \in Methods :
          /\ started < MaxStarted
          /\ started' = started + 1
          /\ metrics' = incrementConnections(metrics)
          /\ inFlight' = [k \in DOMAIN inFlight \cup {started + 1} |->
                             IF k = started + 1 THEN method ELSE inFlight[k]]
          /\ metricsFrame
    \/ \E id \in DOMAIN inFlight, statusCode \in StatusCodes, duration \in Durations :
          /\ metrics' = decrementConnections(
                            recordRequest(metrics, inFlight[id], statusCode, duration))
          /\ inFlight' = [k \in DOMAIN inFlight \ {id} |-> inFlight[k]]
          /\ UNCHANGED started
          /\ metricsFrame

recordError ==
    \E errorType \in {"ValidationError"} :
       /\ metrics.errors < MaxErrors
       /\ metrics' = [metrics EXCEPT !.errors = @ + 1,
                                     !.errorsByType = countKey(@, errorType)]
       /\ UNCHANGED <<inFlight, started>>
       /\ metricsFrame

metricsReset ==
    /\ metrics' = reset(metrics)
    /\ UNCHANGED <<inFlight, started>>
    /\ metricsFrame

InitMetrics ==
    /\ users = [id \in AuthIds |-> <<>>]
    /\ rels = [pr \in Pairs |-> 0]
    /\ down = {}
    /\ pc = [p \in Requests |-> "idle"]
    /\ loc = [p \in Requests |-> Idle]
    /\ ActivityOff /\ PodsOff
    /\ classStudents = <<>> /\ classNotes = <<>> /\ npc = <<>> /\ nloc = <<>>
    /\ mpc = <<>> /\ mloc = <<>>
    /\ ChatOff /\ RegOff /\ CacheOff
    /\ metrics = [requests |-> 0, requestsByMethod |-> <<>>, requestsByStatus |-> <<>>,
                  responseTimes |-> <<>>, errors |-> 0, errorsByType |-> <<>>,
                  activeConnections |-> 0]
    /\ inFlight = <<>>
    /\ started = 0

MetricsNext == metricsMiddleware \/ recordError \/ metricsReset

SpecMetrics == InitMetrics /\ [][MetricsNext]_vars

\* the statement of C30 as claimed: after any interleaving of request starts,
\* request finishes and reset calls, activeConnections is never negative and
\* equals the number of requests that passed metricsMiddleware and have not yet
\* finished, and every finished request is counted exactly once in
\* requests.total
C30_TotalCountsFinished ==
    /\ metrics.activeConnections >= 0
    /\ metrics.activeConnections = Cardinality(DOMAIN inFlight)
    /\ metrics.requests = started - Cardinality(DOMAIN inFlight)

\* C30: the connection gauge equals the number of requests in flight: after
\* any interleaving of request starts, request finishes and reset calls,
\* activeConnections is never negative and equals the number of requests that
\* passed metricsMiddleware and have not yet finished; every finish raises
\* requests.total by exactly one, nothing else raises it, and a reset sets it
\* to 0, so the total counts once each request finished since the latest reset.
C30_ConnectionGauge ==
    /\ [](/\ metrics.activeConnections >= 0
          /\ metrics.activeConnections = Cardinality(DOMAIN inFlight)
          /\ metrics.requests <= started - Cardinality(DOMAIN inFlight)
          /\ metrics.requests = Len(metrics.responseTimes))
    /\ [][metrics'.requests =
             IF DOMAIN inFlight' # DOMAIN inFlight /\ started' = started
             THEN metrics.requests + 1
             ELSE IF metrics' = reset(metrics) THEN 0
             ELSE metrics.requests]_vars

\* three requests have started and two have finished, with a reset after the
\* first finish: one request in flight, one counted
C30_Witness ==
    /\ started = 3
    /\ Cardinality(DOMAIN inFlight) = 1
    /\ metrics.activeConnections = 1
    /\ metrics.requests = 1
    /\ Len(metrics.responseTimes) = 1

====
